---------------------------- MODULE Spec2Model ----------------------------
(***************************************************************************)
(* A state machine of the globe-component custom element (Lit + d3).       *)
(*                                                                         *)
(* The repository holds six revisions of the same class; `rev` picks the   *)
(* one a behaviour runs:                                                    *)
(*   "point"  src/globe-component.js:1125-1275  one highlighted point       *)
(*   "arcs"   src/globe-component.js:784-1115   locations, generated arcs   *)
(*   "zoom"   src/unnamed/part_001:38-570       + zoom, fit, resize         *)
(*   "labels" src/unnamed/part_001:618-1268     + arcs property, addArc     *)
(*   "latest" src/globe-component.js:46-749     + range check, updateArc    *)
(*   "hub"    src/globe-component.js:1318-1902  central location + spokes   *)
(*                                                                         *)
(* Numbers.  A JavaScript number is a record [k, v]: k = "num" with the    *)
(* integer v, or k = "inf" (+Infinity) or k = "nan".  Angles are whole     *)
(* degrees, lengths whole pixels; a quotient is truncated to an integer.   *)
(* Math.sin / Math.cos are the table Cos10000 (four decimals).  The        *)
(* locations the model feeds in lie on the equator, where the great-circle *)
(* arithmetic below is exact in whole degrees.                             *)
(***************************************************************************)
EXTENDS Integers, Sequences, FiniteSets, TLC

\* ------------------------------------------------------------------ bounds
\* most locations the model lets the list grow to
MaxLocs == 3
\* most arcs the model lets the list grow to
MaxArcs == 2
\* most events and calls in one behaviour
MaxOps == 3

\* ------------------------------------------------------- JavaScript numbers
Num(v) == [k |-> "num", v |-> v]
NaN == [k |-> "nan", v |-> 0]
Inf == [k |-> "inf", v |-> 0]

\* an element of a coordinates array that is not a number (the string 'x'): the
\* arrays of the model hold whole degrees, and this value in its place
NotNumber == 1000

\* the element v of a coordinates array in arithmetic: NaN when not a number
JsNumber(v) == IF v = NotNumber THEN NaN ELSE Num(v)

\* c[i - 1] of a coordinates array c: undefined, not a number, past its length
Elem(c, i) == IF i <= Len(c) THEN c[i] ELSE NotNumber

\* typeof lon === 'number' && typeof lat === 'number' of const [lon, lat] = c
Numeric(c) == Elem(c, 1) # NotNumber /\ Elem(c, 2) # NotNumber

Abs(x) == IF x < 0 THEN -x ELSE x

\* const x = v; F(x): v is computed once
Const(v, F(_)) == CHOOSE r \in {F(x) : x \in {v}} : TRUE

\* integer quotient truncated toward zero, as a float quotient loses its fraction
TruncDiv(a, b) == IF (a < 0) = (b < 0) THEN Abs(a) \div Abs(b) ELSE -(Abs(a) \div Abs(b))

\* a < b on JavaScript numbers: false whenever a NaN is involved
JsLt(a, b) ==
    /\ a.k # "nan"
    /\ b.k # "nan"
    /\ a.k # "inf"
    /\ (b.k = "inf" \/ a.v < b.v)

\* Math.min(a, b)
JsMin(a, b) ==
    IF a.k = "nan" \/ b.k = "nan" THEN NaN
    ELSE IF JsLt(b, a) THEN b ELSE a

\* Math.max(a, b)
JsMax(a, b) ==
    IF a.k = "nan" \/ b.k = "nan" THEN NaN
    ELSE IF JsLt(a, b) THEN b ELSE a

\* a / n and a * n for a positive integer n
JsDivBy(a, n) == IF a.k = "num" THEN Num(TruncDiv(a.v, n)) ELSE a
JsTimes(a, n) == IF a.k = "num" THEN Num(a.v * n) ELSE a

\* a / 2.1
JsDivBy2p1(a) == IF a.k = "num" THEN Num(TruncDiv(a.v * 10, 21)) ELSE a

\* x % 360 of JavaScript: the sign of the dividend
JsMod360(x) == IF x < 0 THEN -((-x) % 360) ELSE x % 360

\* -a
JsNeg(a) == IF a.k = "num" THEN Num(-a.v) ELSE a

\* ------------------------------------------------------------ trigonometry
\* cos(d degrees) * 10000 for d = 0..90
Cos10000 ==
    << 10000, 9998, 9994, 9986, 9976, 9962, 9945, 9925, 9903, 9877,
       9848, 9816, 9781, 9744, 9703, 9659, 9613, 9563, 9511, 9455,
       9397, 9336, 9272, 9205, 9135, 9063, 8988, 8910, 8829, 8746,
       8660, 8572, 8480, 8387, 8290, 8192, 8090, 7986, 7880, 7771,
       7660, 7547, 7431, 7314, 7193, 7071, 6947, 6820, 6691, 6561,
       6428, 6293, 6157, 6018, 5878, 5736, 5592, 5446, 5299, 5150,
       5000, 4848, 4695, 4540, 4384, 4226, 4067, 3907, 3746, 3584,
       3420, 3256, 3090, 2924, 2756, 2588, 2419, 2250, 2079, 1908,
       1736, 1564, 1392, 1219, 1045, 872, 698, 523, 349, 175, 0 >>

\* d reduced to (-180, 180]
WrapDeg(d) ==
    LET m == d % 360
    IN IF m > 180 THEN m - 360 ELSE m

\* Math.cos of d degrees, times 10000
Cos(d) ==
    LET a == Abs(WrapDeg(d))
    IN IF a <= 90 THEN Cos10000[a + 1] ELSE -Cos10000[(180 - a) + 1]

\* Math.sin of d degrees, times 10000
Sin(d) == Cos(d - 90)

\* Math.acos(c / 10^8) in whole degrees, 0..180: the degree whose cosine is nearest.
\* AcosBelow(c, k): the angle is beyond k - 1/2 degrees
AcosBelow(c, k) == 2 * c < (Cos(k - 1) + Cos(k)) * 10000

\* the largest k in lo..hi with AcosBelow(c, k), lo when there is none above it
RECURSIVE AcosSearch(_, _, _)
AcosSearch(c, lo, hi) ==
    IF lo = hi THEN lo
    ELSE LET mid == (lo + hi + 1) \div 2
         IN IF AcosBelow(c, mid) THEN AcosSearch(c, mid, hi)
            ELSE AcosSearch(c, lo, mid - 1)

AcosDeg(c) == AcosSearch(c, 0, 180)

\* Math.atan2(y, x) in whole degrees for 0 <= y <= x, x > 0: 0..45.
\* tan(k - 1/2) = (sin(k-1) + sin k) / (cos(k-1) + cos k)
AtanOctant(y, x) ==
    Cardinality({k \in 1..45 : y * (Cos(k - 1) + Cos(k)) >= x * (Sin(k - 1) + Sin(k))})

\* Math.atan2(y, x) in whole degrees for x >= 0, y >= 0, not both 0: 0..90
AtanQuadrant(y, x) ==
    IF y <= x THEN AtanOctant(y, x) ELSE 90 - AtanOctant(x, y)

\* Math.atan2(y, x) in whole degrees, (-180, 180], (x, y) # (0, 0)
Atan2Deg(y, x) ==
    LET q == AtanQuadrant(Abs(y), Abs(x))
    IN IF x >= 0 THEN (IF y >= 0 THEN q ELSE -q)
       ELSE (IF y >= 0 THEN 180 - q ELSE q - 180)


\* ------------------------------------------------------------------ d3-geo
\* a [lon, lat] array as JavaScript numbers
Coord(c) == <<JsNumber(Elem(c, 1)), JsNumber(Elem(c, 2))>>

\* d3.geoDistance(a, b) in whole degrees, a and b pairs of JavaScript numbers:
\* acos(sin pa sin pb + cos pa cos pb cos(la - lb)); NaN when a coordinate is
GeoDistance(a, b) ==
    IF a[1].k # "num" \/ a[2].k # "num" \/ b[1].k # "num" \/ b[2].k # "num" THEN NaN
    ELSE LET c == Sin(a[2].v) * Sin(b[2].v)
                  + TruncDiv(Cos(a[2].v) * Cos(b[2].v), 10000) * Cos(a[1].v - b[1].v)
         IN Num(AcosDeg(c))

RECURSIVE SumX(_)
SumX(cs) ==
    IF cs = <<>> THEN 0
    ELSE TruncDiv(Cos(Head(cs)[2]) * Cos(Head(cs)[1]), 10000) + SumX(Tail(cs))

RECURSIVE SumY(_)
SumY(cs) ==
    IF cs = <<>> THEN 0
    ELSE TruncDiv(Cos(Head(cs)[2]) * Sin(Head(cs)[1]), 10000) + SumY(Tail(cs))

RECURSIVE SumZ(_)
SumZ(cs) == IF cs = <<>> THEN 0 ELSE Sin(Head(cs)[2]) + SumZ(Tail(cs))

\* Math.hypot(x, y), to the hundred
Hypot(x, y) ==
    LET sx == Abs(x) \div 100
        sy == Abs(y) \div 100
        q == sx * sx + sy * sy
    IN 100 * (CHOOSE h \in 0..(sx + sy) : h * h <= q /\ (h + 1) * (h + 1) > q)

\* d3.geoCentroid of a collection of Point features with the coordinates cs (a
\* sequence of integer [lon, lat]): the direction of the sum of the unit vectors,
\* [NaN, NaN] when they cancel out
GeoCentroid(cs) ==
    IF \E i \in 1..Len(cs) : ~Numeric(cs[i]) THEN <<NaN, NaN>>
    ELSE
    Const(<<SumX(cs), SumY(cs), SumZ(cs)>>,
          LAMBDA s :
            IF s[1] = 0 /\ s[2] = 0 /\ s[3] = 0 THEN <<NaN, NaN>>
            ELSE << Num(IF s[1] = 0 /\ s[2] = 0 THEN 0 ELSE Atan2Deg(s[2], s[1])),
                    Num(IF s[3] = 0 THEN 0
                        ELSE Const(Hypot(s[1], s[2]), LAMBDA h : Atan2Deg(s[3], h))) >>)

\* the point of the globe at the middle of the view: [-rotate[0], -rotate[1]]
ViewCenter(rotate) == <<JsNeg(rotate[1]), JsNeg(rotate[2])>>

\* projection.rotate([l, p]): d3 keeps each angle % 360
Rotated(l, p) ==
    << IF l.k = "num" THEN Num(JsMod360(l.v)) ELSE NaN,
       IF p.k = "num" THEN Num(JsMod360(p.v)) ELSE NaN >>

\* this.projection([lon, lat]) of the orthographic projection proj: the pixel
\* [translate[0] + k * x, translate[1] - k * y] of the rotated point's x and y.
\* A scale of Infinity makes every product Infinity * 0 or Infinity - Infinity,
\* so both coordinates are NaN
Projected(coordinates, proj) ==
    IF \/ proj.scale.k # "num" \/ proj.rotate[1].k # "num" \/ proj.rotate[2].k # "num"
       \/ ~Numeric(coordinates)
    THEN <<NaN, NaN>>
    ELSE LET l == coordinates[1] + proj.rotate[1].v
             p == coordinates[2]
             dp == proj.rotate[2].v
             x == TruncDiv(Sin(l) * Cos(p), 10000)
             y == TruncDiv(Sin(p) * Cos(dp) + TruncDiv(Cos(l) * Cos(p), 10000) * Sin(dp),
                           10000)
         IN << Num(proj.translate[1] + TruncDiv(proj.scale.v * x, 10000)),
               Num(proj.translate[2] - TruncDiv(proj.scale.v * y, 10000)) >>

\* the path d3.geoPath draws, under clipAngle(90), for the great-circle line from
\* src to tgt (integer [lon, lat]): "null" when no part of it is in front of the
\* horizon, "clipped" when the horizon cuts it, "whole" otherwise
GeoPathArc(rotate, src, tgt) ==
    LET ds == GeoDistance(Coord(src), ViewCenter(rotate))
        dt == GeoDistance(Coord(tgt), ViewCenter(rotate))
    IN IF ds.k # "num" \/ dt.k # "num" THEN "null"
       ELSE IF ds.v >= 90 /\ dt.v >= 90 THEN "null"
       ELSE IF ds.v > 90 \/ dt.v > 90 THEN "clipped"
       ELSE "whole"

\* --------------------------------------------------------------- revisions
Revs == {"point", "arcs", "zoom", "labels", "latest", "hub"}

\* the revision has a locations property
HasLocations(r) == r # "point"
\* the revision has setupGlobe: a zoom behaviour, fit-to-view, a resize listener
HasZoom(r) == r \in {"zoom", "labels", "latest", "hub"}
\* generateArcs joins consecutive locations
GeneratesArcs(r) == r \in {"arcs", "zoom"}
\* arcs is a property of {source, target, color, label} objects
HasArcsProperty(r) == r \in {"labels", "latest"}

\* ----------------------------------------------------------- input universe
\* the JavaScript value undefined, and what a missing property reads as
Undefined == "undefined"

Loc(n, lon, lat) == [name |-> n, coordinates |-> <<lon, lat>>, arcColor |-> Undefined]
Spoke(n, lon, lat, c) == [name |-> n, coordinates |-> <<lon, lat>>, arcColor |-> c]
Arc(s, t, c, l) == [source |-> s, target |-> t, color |-> c, label |-> l]

\* attribute texts
TextEmpty == "[]"
TextLocA == "[{\"name\":\"a\",\"coordinates\":[0,0]}]"
TextLocAB == "[{\"name\":\"a\",\"coordinates\":[0,0]},{\"name\":\"b\",\"coordinates\":[90,0]}]"
TextLocABC == "[{\"name\":\"a\",\"coordinates\":[0,0]},{\"name\":\"b\",\"coordinates\":[90,0]},{\"name\":\"c\",\"coordinates\":[180,0]}]"
TextLocABD == "[{\"name\":\"a\",\"coordinates\":[0,0]},{\"name\":\"b\",\"coordinates\":[90,0]},{\"name\":\"d\",\"coordinates\":[0]}]"
TextLocTruncated == "[{\"name\":\"a\",\"coordinates\":[0,"
TextArcAB == "[{\"source\":\"a\",\"target\":\"b\",\"color\":\"green\",\"label\":\"x\"}]"
TextArcABBC == "[{\"source\":\"a\",\"target\":\"b\",\"color\":\"green\",\"label\":\"x\"},{\"source\":\"b\",\"target\":\"c\",\"color\":\"red\",\"label\":\"y\"}]"
TextArcUnquoted == "[{source:a}]"
TextCentralB == "{\"name\":\"b\",\"coordinates\":[90,0]}"
TextCentralTruncated == "{\"name\":"

LocationsTexts ==
    {TextEmpty, TextLocA, TextLocAB, TextLocABC, TextLocABD, TextLocTruncated}
ArcsTexts == {TextEmpty, TextArcAB, TextArcABBC, TextArcUnquoted}
CentralTexts == {TextCentralB, TextCentralTruncated}

\* JSON.parse(text) on the texts above: [ok, value], ok = FALSE when it throws
JSONParse(text) ==
    CASE text = TextEmpty -> [ok |-> TRUE, value |-> <<>>]
      [] text = TextLocA -> [ok |-> TRUE, value |-> <<Loc("a", 0, 0)>>]
      [] text = TextLocAB -> [ok |-> TRUE, value |-> <<Loc("a", 0, 0), Loc("b", 90, 0)>>]
      [] text = TextLocABC ->
            [ok |-> TRUE, value |-> <<Loc("a", 0, 0), Loc("b", 90, 0), Loc("c", 180, 0)>>]
      [] text = TextLocABD ->
            [ok |-> TRUE,
             value |-> <<Loc("a", 0, 0), Loc("b", 90, 0),
                         [name |-> "d", coordinates |-> <<0>>, arcColor |-> Undefined]>>]
      [] text = TextArcAB -> [ok |-> TRUE, value |-> <<Arc("a", "b", "green", "x")>>]
      [] text = TextArcABBC ->
            [ok |-> TRUE,
             value |-> <<Arc("a", "b", "green", "x"), Arc("b", "c", "red", "y")>>]
      [] text = TextCentralB -> [ok |-> TRUE, value |-> Loc("b", 90, 0)]
      [] OTHER -> [ok |-> FALSE, value |-> <<>>]

\* the center the markup gives: longitude, latitude
Centers == {<<0, 0>>, <<90, 0>>}

\* the container's laid-out size in pixels: offsetWidth, offsetHeight
FirstSize == <<400, 400>>
Sizes == {FirstSize, <<200, 400>>}

\* the argument of addLocation: a location object, or nothing
LocationArgs ==
    { [t |-> "undefined"] } \cup
    { [t |-> "object", name |-> "a", coordinates |-> c, isArray |-> TRUE,
       arcColor |-> Undefined] :
        c \in {<<90, 0>>, <<200, 0>>, <<0, -91>>, <<0>>} } \cup
    { [t |-> "object", name |-> "c", coordinates |-> <<180, 0>>, isArray |-> TRUE,
       arcColor |-> "red"],
      [t |-> "object", name |-> "c", coordinates |-> <<>>, isArray |-> FALSE,
       arcColor |-> Undefined],
      [t |-> "object", name |-> "c", coordinates |-> <<NotNumber, 0>>, isArray |-> TRUE,
       arcColor |-> Undefined] }

\* the argument of addArc: an arc object, or nothing
ArcArgs ==
    { [t |-> "undefined"] } \cup
    { [t |-> "object", source |-> "a", target |-> "b", label |-> "x", color |-> "blue"],
      [t |-> "object", source |-> "c", target |-> "b", label |-> "y", color |-> "blue"] }
    \cup
    { [t |-> "object", source |-> "a", target |-> "b", label |-> Undefined,
       color |-> Undefined] }

Names == {"a", "b", "c"}
Labels == {"x", "y"}

\* pointer positions of a drag, pixels
Pointers == {<<0, 0>>, <<180, 0>>, <<0, 180>>}

\* what one wheel or pinch event multiplies the zoom transform by: <<num, den>>
ZoomFactors == {<<4, 1>>, <<1, 4>>}
\* the types of the events d3-zoom's filter sees
ZoomEventTypes == {"wheel", "touchmove", "mousedown"}

\* the argument of setZoom
ZoomLevels == {Num(1), Num(100), Num(1000)}

\* ------------------------------------------------------------------- state
VARIABLES
    rev,              \* the revision of the class this element is an instance of
    lifecycle,        \* "constructed" (no first render yet), "rendered", "disconnected"
    longitude,        \* this.longitude
    latitude,         \* this.latitude
    centralLocation,  \* this.centralLocation (hub)
    locations,        \* this.locations
    arcs,             \* this.arcs
    projection,       \* this.projection: [rotate, scale, translate]
    zoom,             \* this.zoom: [scaleExtent]
    zoomK,            \* the svg node's zoom transform (__zoom.k)
    initialScale,     \* this.initialScale
    svg,              \* this.svg: [width, height, points, arcs], what is drawn, and
                      \* [pointGroups, arcGroups], the g elements of the overlay
    startRotate,      \* makeGlobeDraggable's startRotate
    pressed,          \* a pointer is down on the svg
    transition,       \* the transition setZoom scheduled: its target scale, or NoTransition
    changed,          \* Lit's changedProperties of the update that is pending
    windowListeners,  \* the functions registered on window for 'resize'
    closures,         \* how many arrow functions the element has created
    size,             \* the container's laid-out size
    last,             \* the last event or call: [op, console, threw, ...]
    ops               \* events and calls so far

vars ==
    << rev, lifecycle, longitude, latitude, centralLocation, locations, arcs, projection,
       zoom, zoomK, initialScale, svg, startRotate, pressed, transition, changed,
       windowListeners, closures, size, last, ops >>

NoTransition == [k |-> "none", v |-> 0]

\* console messages
WarnInvalidLocation == "Invalid location format:"
WarnInvalidLonLat == "Invalid longitude or latitude values:"
WarnArcIncomplete == "Arc must have source, target, and label:"
WarnArcEndpoint == "Source or target location not found for arc:"
WarnArcLabel == "Arc with the same label already exists:"
WarnInvalidCoordinates == "Invalid coordinates for location:"
WarnInvalidPair == "Invalid coordinates for locations at index"
WarnArcNotFound == "Arc source or target not found:"
WarnNoArc == "No arc found between"
WarnManyArcs == "Multiple arcs found between"
WarnNoLocation == "Location with name not found."
ErrorLocationsJson == "Invalid JSON for locations:"
ErrorArcsJson == "Invalid JSON for arcs:"
ErrorCentralJson == "Invalid JSON for central-location:"

\* this.offsetWidth, this.offsetHeight: a disconnected element has no layout
Offset == IF lifecycle = "disconnected" THEN <<0, 0>> ELSE size

\* the element as the handlers see it: `this`, with the console and whether the
\* handler has thrown
This ==
    [ rev |-> rev, lifecycle |-> lifecycle, longitude |-> longitude, latitude |-> latitude,
      centralLocation |-> centralLocation, locations |-> locations, arcs |-> arcs,
      projection |-> projection, zoom |-> zoom, zoomK |-> zoomK,
      initialScale |-> initialScale, svg |-> svg, startRotate |-> startRotate,
      transition |-> transition, changed |-> changed,
      windowListeners |-> windowListeners, closures |-> closures,
      offset |-> Offset, console |-> {}, threw |-> FALSE ]

Warn(t, msg) == [t EXCEPT !.console = @ \cup {msg}]
Throw(t) == [t EXCEPT !.threw = TRUE]

\* this.projection, this.svg and this.zoom are undefined until the first render
Undefd(t) == t.lifecycle = "constructed"

Min(a, b) == IF a < b THEN a ELSE b

\* --------------------------------------------------------------- rendering
\* angle <= Math.PI / 2: the horizon counted as in front
InFrontOrOnHorizon(coordinates, rotate) ==
    JsLt(GeoDistance(Coord(coordinates), ViewCenter(rotate)), Num(91))

\* angle < Math.PI / 2, angle = d3.geoDistance(coordinates, [-rotate[0], -rotate[1]])
InFront(coordinates, rotate) ==
    JsLt(GeoDistance(Coord(coordinates), ViewCenter(rotate)), Num(90))

\* angle > Math.PI / 2
Behind(coordinates, rotate) ==
    JsLt(Num(90), GeoDistance(Coord(coordinates), ViewCenter(rotate)))

\* the circles highlightPoints appends for locs[i..]: one per location in front
\* (the tooltip "arcs" and "zoom" show while the pointer is over a circle is not
\* part of the model); "labels", "latest" and "hub" draw the name beside the circle
RECURSIVE Circles(_, _, _, _)
Circles(r, locs, i, rotate) ==
    IF i > Len(locs) THEN <<>>
    ELSE (IF InFront(locs[i].coordinates, rotate)
          THEN << [loc |-> i, name |-> locs[i].name,
                   label |-> IF GeneratesArcs(r) THEN Undefined ELSE locs[i].name] >>
          ELSE <<>>) \o Circles(r, locs, i + 1, rotate)

\* highlightPoint of "point": the circle of [longitude, latitude], if in front
highlightPoint(t) ==
    IF Undefd(t) THEN Throw(t)
    ELSE LET angle == GeoDistance(<<t.longitude, t.latitude>>,
                                  ViewCenter(t.projection.rotate))
         IN [t EXCEPT !.svg.points =
                IF JsLt(angle, Num(90))
                THEN << [loc |-> 0, name |-> Undefined, label |-> Undefined] >>
                ELSE <<>>]

\* addPoint of "hub" for the central location: the circle with isCentral
CentralCircle(t) ==
    IF InFront(t.centralLocation.coordinates, t.projection.rotate)
    THEN << [loc |-> 0, name |-> t.centralLocation.name,
             label |-> t.centralLocation.name] >>
    ELSE <<>>

\* the g elements of the points in the svg after highlightPoints has appended
\* one for each of n circles: "arcs" and "zoom" remove 'circle.point' and leave
\* the groups of the circles there; "labels", "latest" and "hub" remove
\* 'g.point-group'
PointGroups(t, n) == IF GeneratesArcs(t.rev) THEN t.svg.pointGroups + n ELSE n

\* the g elements of the arcs in the svg after drawArcs has appended its one:
\* "arcs" and "zoom" remove 'path.arc' and leave the group of the paths there;
\* "labels", "latest" and "hub" remove 'g.arc-group'
ArcGroups(t) == IF GeneratesArcs(t.rev) THEN t.svg.arcGroups + 1 ELSE 1

\* highlightPoints: removes the circles drawn before and draws the locations in
\* front of the horizon ("hub": the central location first)
highlightPoints(t) ==
    IF t.rev = "point" THEN highlightPoint(t)
    ELSE IF Undefd(t) THEN Throw(t)
    ELSE LET circles == (IF t.rev = "hub" THEN CentralCircle(t) ELSE <<>>)
                        \o Circles(t.rev, t.locations, 1, t.projection.rotate)
         IN [t EXCEPT !.svg.points = circles,
                      !.svg.pointGroups = PointGroups(t, Len(circles)),
                      !.console =
               IF \E i \in 1..Len(t.locations) : ~Numeric(t.locations[i].coordinates)
               THEN @ \cup {WarnInvalidCoordinates} ELSE @]

\* locations.find(loc => loc.name === name): its index, 0 for undefined
Find(locs, name) ==
    IF \E i \in 1..Len(locs) : locs[i].name = name
    THEN CHOOSE i \in 1..Len(locs) :
            /\ locs[i].name = name
            /\ \A j \in 1..(i - 1) : locs[j].name # name
    ELSE 0

\* Array.isArray(source) && source.length === 2 && Array.isArray(target) &&
\* target.length === 2 of the pair of coordinates of an arc
ArcPair(arc) == Len(arc.geometry[1]) = 2 /\ Len(arc.geometry[2]) = 2

\* generateArcs without this.arcs = []: the arcs are pushed behind those there
generateArcsKeeping(t) ==
    IF GeneratesArcs(t.rev)
    THEN Const([i \in 1..(IF Len(t.locations) = 0 THEN 0 ELSE Len(t.locations) - 1) |->
                   [geometry |-> <<t.locations[i].coordinates,
                                   t.locations[i + 1].coordinates>>]],
               LAMBDA pairs :
                 [t EXCEPT !.arcs = @ \o SelectSeq(pairs, ArcPair),
                           !.console = IF \E i \in 1..Len(pairs) : ~ArcPair(pairs[i])
                                       THEN @ \cup {WarnInvalidPair} ELSE @])
    ELSE t

\* generateArcs of "arcs" and "zoom": a LineString between consecutive locations;
\* a pair with coordinates that are not an array of two is left out with a warning
generateArcs(t) ==
    IF GeneratesArcs(t.rev)
    THEN Const([i \in 1..(IF Len(t.locations) = 0 THEN 0 ELSE Len(t.locations) - 1) |->
                   [geometry |-> <<t.locations[i].coordinates,
                                   t.locations[i + 1].coordinates>>]],
               LAMBDA pairs :
                 [t EXCEPT !.arcs = SelectSeq(pairs, ArcPair),
                           !.console = IF \E i \in 1..Len(pairs) : ~ArcPair(pairs[i])
                                       THEN @ \cup {WarnInvalidPair} ELSE @])
    ELSE t

\* d.color || 'blue'
ColorOr(c, dflt) == IF c = Undefined THEN dflt ELSE c

\* an arc of drawArcs that gets a path though an end point is not found
ArcItemUnskipped(t, j) ==
    LET d == t.arcs[j]
        s == Find(t.locations, d.source)
        g == Find(t.locations, d.target)
        rot == t.projection.rotate
        shown == /\ s # 0
                 /\ g # 0
                 /\ ~Behind(t.locations[s].coordinates, rot)
                 /\ ~Behind(t.locations[g].coordinates, rot)
        path == IF s = 0 \/ g = 0 THEN "whole"
                ELSE IF ~shown THEN "null"
                ELSE GeoPathArc(rot, t.locations[s].coordinates,
                                t.locations[g].coordinates)
    IN [ arc |-> j, label |-> d.label, d |-> path, stroke |-> ColorOr(d.color, "blue"),
         labelAt |-> IF shown THEN "midpoint" ELSE "origin", found |-> s # 0 /\ g # 0 ]

\* one arc of drawArcs in "labels" and "latest": the path's d attribute, where the
\* label's text element is put, and whether the arc's end points were found
ArcItem(t, j) ==
    LET d == t.arcs[j]
        s == Find(t.locations, d.source)
        g == Find(t.locations, d.target)
        rot == t.projection.rotate
        path == IF s = 0 \/ g = 0 THEN "null"
                ELSE IF Behind(t.locations[s].coordinates, rot)
                        \/ Behind(t.locations[g].coordinates, rot) THEN "null"
                ELSE GeoPathArc(rot, t.locations[s].coordinates,
                                t.locations[g].coordinates)
        shown == /\ s # 0
                 /\ g # 0
                 /\ ~Behind(t.locations[s].coordinates, rot)
                 /\ ~Behind(t.locations[g].coordinates, rot)
    IN [ arc |-> j, label |-> d.label, d |-> path, stroke |-> ColorOr(d.color, "blue"),
         labelAt |-> IF shown THEN "midpoint" ELSE "origin", found |-> s # 0 /\ g # 0 ]

\* one arc of drawArcs in "hub": from the central location to locations[j]
SpokeItem(t, j) ==
    LET d == t.locations[j]
        rot == t.projection.rotate
    IN [ arc |-> j, label |-> Undefined,
         d |-> IF Behind(t.centralLocation.coordinates, rot)
                  \/ Behind(d.coordinates, rot) THEN "null"
               ELSE GeoPathArc(rot, t.centralLocation.coordinates, d.coordinates),
         stroke |-> ColorOr(d.arcColor, "red"), labelAt |-> "none", found |-> TRUE ]

\* one arc of drawArcs in "arcs" and "zoom": attr('d', this.path), no end-point test
LineItem(t, j) ==
    [ arc |-> j, label |-> Undefined,
      d |-> GeoPathArc(t.projection.rotate, t.arcs[j].geometry[1], t.arcs[j].geometry[2]),
      stroke |-> "blue", labelAt |-> "none", found |-> TRUE ]

\* drawArcs: removes the arcs drawn before and draws the current ones
drawArcs(t) ==
    IF t.rev = "point" THEN t
    ELSE IF Undefd(t) THEN Throw(t)
    ELSE IF t.rev = "hub"
    THEN [t EXCEPT !.svg.arcs = [j \in 1..Len(t.locations) |-> SpokeItem(t, j)],
                   !.svg.arcGroups = ArcGroups(t)]
    ELSE IF GeneratesArcs(t.rev)
    THEN [t EXCEPT !.svg.arcs = [j \in 1..Len(t.arcs) |-> LineItem(t, j)],
                   !.svg.arcGroups = ArcGroups(t)]
    ELSE Const([j \in 1..Len(t.arcs) |-> ArcItem(t, j)], LAMBDA items :
            [t EXCEPT !.svg.arcs = items,
                      !.svg.arcGroups = ArcGroups(t),
                      !.console = IF \E j \in 1..Len(items) : ~items[j].found
                                  THEN @ \cup {WarnArcNotFound} ELSE @])

\* a handler step after another: nothing runs once the handler has thrown
Then(t, F(_)) == CHOOSE r \in {IF x.threw THEN x ELSE F(x) : x \in {t}} : TRUE

\* ------------------------------------------------------------ zoom and fit
\* the scale extent with s / 2 as minScale in every revision
ScaleExtentHalved(r, s) == << JsDivBy(s, 2), JsTimes(s, 3) >>

\* [minScale, maxScale] around the scale s: s / 10 ("latest", "hub") or s / 2, s * 3
ScaleExtent(r, s) ==
    << IF r \in {"latest", "hub"} THEN JsDivBy(s, 10) ELSE JsDivBy(s, 2), JsTimes(s, 3) >>

\* Math.min(width, height) / 2 ("latest", "hub") or / 2.1
InitialScale(r, offset) ==
    IF r \in {"latest", "hub"} THEN Num(Min(offset[1], offset[2]) \div 2)
    ELSE JsDivBy2p1(Num(Min(offset[1], offset[2])))

\* updateProjection: re-renders the points, then the arcs
updateProjection(t) == Then(highlightPoints(t), drawArcs)

\* handleZoom that makes the transform's k the scale as it comes
handleZoomUnclamped(t, k) ==
    updateProjection([t EXCEPT !.projection.scale = k])

\* handleZoom: the transform's k clamped into the scale extent becomes the scale
handleZoom(t, k) ==
    LET clampedScale == JsMax(t.zoom.scaleExtent[1], JsMin(k, t.zoom.scaleExtent[2]))
    IN updateProjection([t EXCEPT !.projection.scale = clampedScale])

\* selection.call(zoom.transform, identity.scale(k)): interrupts a transition,
\* stores the transform as given and emits the zoom event
zoomTransform(t, k) ==
    handleZoom([t EXCEPT !.zoomK = k, !.transition = NoTransition], k)

\* the coordinates adjustProjectionToFitLocations collects ("hub": central first)
FitCoordinates(t) ==
    (IF t.rev = "hub" THEN <<t.centralLocation.coordinates>> ELSE <<>>)
    \o [i \in 1..Len(t.locations) |-> t.locations[i].coordinates]

\* the forEach of adjustProjectionToFitLocations: the largest distance > acc
RECURSIVE MaxDistance(_, _, _)
MaxDistance(centroid, cs, acc) ==
    IF cs = <<>> THEN acc
    ELSE LET distance == GeoDistance(centroid, Coord(Head(cs)))
         IN MaxDistance(centroid, Tail(cs), IF JsLt(acc, distance) THEN distance ELSE acc)

\* (0.8 * radius) / Math.sin(maxDistance)
RequiredScale(radius, maxDistance) ==
    IF Sin(maxDistance.v) = 0 THEN (IF radius = 0 THEN NaN ELSE Inf)
    ELSE Num(TruncDiv(8 * radius * 10000, 10 * Sin(maxDistance.v)))

\* the fit with maxDistance as the forEach leaves it, not clamped to 90 degrees
adjustProjectionUnclamped(t) ==
    IF Len(t.locations) = 0 THEN t
    ELSE IF Undefd(t) THEN Throw(t)
    ELSE Const(GeoCentroid(FitCoordinates(t)), LAMBDA centroid :
         Const(MaxDistance(centroid, FitCoordinates(t), Num(0)),
               LAMBDA maxDistance :
         Const(RequiredScale(Min(t.offset[1], t.offset[2]) \div 2, maxDistance),
               LAMBDA finalScale :
         Then(Then(Then(Then([t EXCEPT !.projection.rotate =
                                           Rotated(JsNeg(centroid[1]), JsNeg(centroid[2])),
                                       !.projection.scale = finalScale,
                                       !.zoom.scaleExtent = ScaleExtent(t.rev, finalScale)],
                             generateArcs),
                        drawArcs),
                   highlightPoints),
              LAMBDA x : zoomTransform(x, x.projection.scale)))))

adjustProjectionToFitLocations(t) ==
    IF Len(t.locations) = 0 THEN t
    ELSE IF Undefd(t) THEN Throw(t)
    ELSE Const(GeoCentroid(FitCoordinates(t)), LAMBDA centroid :
         Const(JsMin(MaxDistance(centroid, FitCoordinates(t), Num(0)), Num(90)),
               LAMBDA maxDistance :
         Const(RequiredScale(Min(t.offset[1], t.offset[2]) \div 2, maxDistance),
               LAMBDA finalScale :
         Then(Then(Then(Then([t EXCEPT !.projection.rotate =
                                           Rotated(JsNeg(centroid[1]), JsNeg(centroid[2])),
                                       !.projection.scale = finalScale,
                                       !.zoom.scaleExtent = ScaleExtent(t.rev, finalScale)],
                             generateArcs),
                        drawArcs),
                   highlightPoints),
              LAMBDA x : zoomTransform(x, x.projection.scale)))))

\* ------------------------------------------------------ lifecycle handlers
\* the rotation of the first render: [-longitude, -latitude]; "arcs": the first
\* location when there is one; "hub": the central location
FirstRotate(t) ==
    IF t.rev = "hub"
    THEN Rotated(Num(-t.centralLocation.coordinates[1]),
                 Num(-t.centralLocation.coordinates[2]))
    ELSE IF t.rev = "arcs" /\ Len(t.locations) > 0
    THEN Rotated(JsNeg(Coord(t.locations[1].coordinates)[1]),
                 JsNeg(Coord(t.locations[1].coordinates)[2]))
    ELSE Rotated(JsNeg(t.longitude), JsNeg(t.latitude))

\* setupGlobe ("point", "arcs": the body of firstUpdated): the projection, the svg,
\* the zoom behaviour, the first drawing, the drag behaviour, the fit
setupGlobe(t) ==
    LET width == t.offset[1]
        height == t.offset[2]
        scale0 == IF HasZoom(t.rev) THEN InitialScale(t.rev, t.offset)
                  ELSE JsDivBy2p1(Num(height))
        t1 == [t EXCEPT !.lifecycle = "rendered",
                        !.initialScale = IF HasZoom(t.rev) THEN scale0 ELSE @,
                        !.projection = [rotate |-> FirstRotate(t), scale |-> scale0,
                                        translate |-> <<width \div 2, height \div 2>>],
                        !.svg = [width |-> width, height |-> height,
                                 points |-> <<>>, arcs |-> <<>>,
                                 pointGroups |-> 0, arcGroups |-> 0],
                        !.zoom = IF HasZoom(t.rev)
                                 THEN [scaleExtent |-> ScaleExtent(t.rev, scale0)] ELSE @]
    IN Then(Then(Then(Then(t1, generateArcs), highlightPoints), drawArcs),
            LAMBDA x : IF HasZoom(x.rev) THEN adjustProjectionToFitLocations(x) ELSE x)

\* window.addEventListener('resize', () => this.handleResize()): a new arrow
\* function is registered
addEventListener(t) ==
    [t EXCEPT !.windowListeners = @ \cup {t.closures + 1}, !.closures = @ + 1]

\* firstUpdated: setupGlobe, then the 'resize' listener
firstUpdated(t) ==
    Then(setupGlobe(t), LAMBDA x : IF HasZoom(x.rev) THEN addEventListener(x) ELSE x)

\* disconnectedCallback: removeEventListener is given a new arrow function, which
\* removes the listener that is that same function
disconnectedCallback(t) ==
    IF HasZoom(t.rev)
    THEN [t EXCEPT !.windowListeners = @ \ {t.closures + 1},
                   !.closures = @ + 1,
                   !.lifecycle = "disconnected"]
    ELSE [t EXCEPT !.lifecycle = "disconnected"]

\* handleResize
handleResize(t) ==
    LET width == t.offset[1]
        height == t.offset[2]
        scale0 == InitialScale(t.rev, t.offset)
        t1 == [t EXCEPT !.projection.translate = <<width \div 2, height \div 2>>,
                        !.initialScale = scale0,
                        !.projection.scale = scale0,
                        !.zoom.scaleExtent = ScaleExtent(t.rev, scale0),
                        !.svg.width = width,
                        !.svg.height = height]
    IN Then(Then(Then(Then(t1, generateArcs), drawArcs), highlightPoints),
            adjustProjectionToFitLocations)

\* the properties updated() reacts to
Watched(r) ==
    CASE r = "point" -> {"longitude", "latitude"}
      [] r \in {"arcs", "zoom"} -> {"longitude", "latitude", "locations"}
      [] r \in {"labels", "latest"} -> {"longitude", "latitude", "locations", "arcs"}
      [] r = "hub" -> {"centralLocation", "locations"}

\* an update that always rotates to the configured center
UpdatedRotateToCenter(t) ==
    IF t.rev = "hub"
    THEN Rotated(Num(-t.centralLocation.coordinates[1]),
                 Num(-t.centralLocation.coordinates[2]))
    ELSE Rotated(JsNeg(t.longitude), JsNeg(t.latitude))

\* an update that leaves the rotation as it is
UpdatedRotateKept(t) == t.projection.rotate

\* the rotation updated() sets
UpdatedRotate(t) ==
    IF t.rev = "hub"
    THEN Rotated(Num(-t.centralLocation.coordinates[1]),
                 Num(-t.centralLocation.coordinates[2]))
    ELSE IF t.rev # "point" /\ Len(t.locations) > 0
    THEN Rotated(JsNeg(Coord(t.locations[1].coordinates)[1]),
                 JsNeg(Coord(t.locations[1].coordinates)[2]))
    ELSE Rotated(JsNeg(t.longitude), JsNeg(t.latitude))

\* updated that re-renders and leaves the fit out
updatedUnfitted(t, changedProperties) ==
    IF changedProperties \cap Watched(t.rev) = {} THEN t
    ELSE LET t1 == IF HasZoom(t.rev)
                   THEN [t EXCEPT !.projection.rotate = UpdatedRotate(t)]
                   ELSE [t EXCEPT !.projection.rotate = UpdatedRotate(t),
                                  !.projection.scale = JsDivBy2p1(Num(t.offset[2])),
                                  !.projection.translate =
                                      <<t.offset[1] \div 2, t.offset[2] \div 2>>]
         IN Then(Then(Then(t1, generateArcs), drawArcs), highlightPoints)

\* updated(changedProperties)
updated(t, changedProperties) ==
    IF changedProperties \cap Watched(t.rev) = {} THEN t
    ELSE LET t1 == IF HasZoom(t.rev)
                   THEN [t EXCEPT !.projection.rotate = UpdatedRotate(t)]
                   ELSE [t EXCEPT !.projection.rotate = UpdatedRotate(t),
                                  !.projection.scale = JsDivBy2p1(Num(t.offset[2])),
                                  !.projection.translate =
                                      <<t.offset[1] \div 2, t.offset[2] \div 2>>]
         IN Then(Then(Then(Then(t1, generateArcs), drawArcs), highlightPoints),
                 LAMBDA x : IF HasZoom(x.rev) THEN adjustProjectionToFitLocations(x)
                            ELSE x)

\* ------------------------------------------------------------- public API
\* a reactive property was assigned: Lit schedules an update
Requested(t, props) == [t EXCEPT !.changed = @ \cup props]

\* array.filter(keep)
Filter(s, Keep(_)) == SelectSeq(s, Keep)

\* setZoom(zoomLevel): a 750 ms transition of the zoom transform to the level
setZoom(t, zoomLevel) ==
    IF Undefd(t) THEN Throw(t)
    ELSE [t EXCEPT !.transition = zoomLevel]

\* getZoom(): this.projection.scale()
getZoom(t) == IF Undefd(t) THEN Throw(t) ELSE t

\* lon < -180 || lon > 180 || lat < -90 || lat > 90: every comparison with a value
\* that is not a number is false
OutOfRange(coordinates) ==
    \/ JsLt(JsNumber(coordinates[1]), Num(-180))
    \/ JsLt(Num(180), JsNumber(coordinates[1]))
    \/ JsLt(JsNumber(coordinates[2]), Num(-90))
    \/ JsLt(Num(90), JsNumber(coordinates[2]))

\* location && Array.isArray(location.coordinates) && location.coordinates.length === 2
WellFormed(location) ==
    /\ location.t = "object"
    /\ location.isArray
    /\ Len(location.coordinates) = 2

\* addLocation without the range check of "latest" and "hub"
addLocationUnranged(t, location) ==
    IF ~WellFormed(location) THEN Warn(t, WarnInvalidLocation)
    ELSE LET stored == [name |-> location.name, coordinates |-> location.coordinates,
                        arcColor |-> location.arcColor]
             t1 == Requested([t EXCEPT !.locations = Append(@, stored)], {"locations"})
         IN IF t.rev = "hub" THEN Then(t1, adjustProjectionToFitLocations) ELSE t1

\* addLocation(location); the range check is in "latest" and "hub", "hub" re-fits
addLocation(t, location) ==
    IF ~WellFormed(location) THEN Warn(t, WarnInvalidLocation)
    ELSE IF t.rev \in {"latest", "hub"} /\ OutOfRange(location.coordinates)
    THEN Warn(t, WarnInvalidLonLat)
    ELSE LET stored == [name |-> location.name, coordinates |-> location.coordinates,
                        arcColor |-> location.arcColor]
             t1 == Requested([t EXCEPT !.locations = Append(@, stored)], {"locations"})
         IN IF t.rev = "hub" THEN Then(t1, adjustProjectionToFitLocations) ELSE t1

\* removeLocation that leaves the arcs alone
removeLocationOnly(t, name) ==
    LET t1 == Requested([t EXCEPT !.locations = Filter(@, LAMBDA loc : loc.name # name)],
                        {"locations"})
    IN IF t.rev = "hub" THEN Then(t1, adjustProjectionToFitLocations) ELSE t1

\* removeLocation(name); "labels" and "latest" also drop the arcs that name it,
\* "hub" re-fits
removeLocation(t, name) ==
    LET t1 == Requested([t EXCEPT !.locations = Filter(@, LAMBDA loc : loc.name # name)],
                        {"locations"})
    IN IF HasArcsProperty(t.rev)
       THEN Requested([t1 EXCEPT !.arcs =
                        Filter(@, LAMBDA arc : arc.source # name /\ arc.target # name)],
                      {"arcs"})
       ELSE IF t.rev = "hub" THEN Then(t1, adjustProjectionToFitLocations)
       ELSE t1

\* addArc without the test for a label already in use
addArcAnyLabel(t, arc) ==
    IF arc.t = "undefined" THEN Throw(t)
    ELSE IF arc.source = Undefined \/ arc.target = Undefined \/ arc.label = Undefined
    THEN Warn(t, WarnArcIncomplete)
    ELSE IF Find(t.locations, arc.source) = 0 \/ Find(t.locations, arc.target) = 0
    THEN Warn(t, WarnArcEndpoint)
    ELSE Then(Requested([t EXCEPT !.arcs = Append(@, Arc(arc.source, arc.target,
                                                         arc.color, arc.label))],
                        {"arcs"}),
              adjustProjectionToFitLocations)

\* addArc that does not look up the locations of the arc
addArcUnlocated(t, arc) ==
    IF arc.t = "undefined" THEN Throw(t)
    ELSE IF arc.source = Undefined \/ arc.target = Undefined \/ arc.label = Undefined
    THEN Warn(t, WarnArcIncomplete)
    ELSE IF \E j \in 1..Len(t.arcs) : t.arcs[j].label = arc.label
    THEN Warn(t, WarnArcLabel)
    ELSE Then(Requested([t EXCEPT !.arcs = Append(@, Arc(arc.source, arc.target,
                                                         arc.color, arc.label))],
                        {"arcs"}),
              adjustProjectionToFitLocations)

\* addArc(arc): destructures its argument, validates, appends, re-fits
addArc(t, arc) ==
    IF arc.t = "undefined" THEN Throw(t)
    ELSE IF arc.source = Undefined \/ arc.target = Undefined \/ arc.label = Undefined
    THEN Warn(t, WarnArcIncomplete)
    ELSE IF Find(t.locations, arc.source) = 0 \/ Find(t.locations, arc.target) = 0
    THEN Warn(t, WarnArcEndpoint)
    ELSE IF \E j \in 1..Len(t.arcs) : t.arcs[j].label = arc.label
    THEN Warn(t, WarnArcLabel)
    ELSE Then(Requested([t EXCEPT !.arcs = Append(@, Arc(arc.source, arc.target,
                                                         arc.color, arc.label))],
                        {"arcs"}),
              adjustProjectionToFitLocations)

\* removeArc that takes out the first arc with the label only
removeArcFirst(t, label) ==
    LET first == {j \in 1..Len(t.arcs) :
                     /\ t.arcs[j].label = label
                     /\ \A i \in 1..(j - 1) : t.arcs[i].label # label}
    IN Requested([t EXCEPT !.arcs = [i \in 1..(Len(@) - Cardinality(first)) |->
                                        IF \E j \in first : j <= i THEN @[i + 1] ELSE @[i]]],
                 {"arcs"})

\* removeArc(label)
removeArc(t, label) ==
    Requested([t EXCEPT !.arcs = Filter(@, LAMBDA arc : arc.label # label)], {"arcs"})

\* updateArc that changes the first arc between the two, however many there are
updateArcFirstMatch(t, source, target, newColor, newLabel) ==
    LET matchingArcs == {j \in 1..Len(t.arcs) :
                            t.arcs[j].source = source /\ t.arcs[j].target = target}
    IN IF matchingArcs = {} THEN Warn(t, WarnNoArc)
       ELSE LET arcIndex == CHOOSE j \in matchingArcs : \A i \in matchingArcs : j <= i
            IN Then(Requested([t EXCEPT !.arcs[arcIndex].color = newColor,
                                        !.arcs[arcIndex].label = newLabel],
                              {"arcs"}),
                    drawArcs)

\* updateArc(source, target, newColor, newLabel): the one arc between the two
updateArc(t, source, target, newColor, newLabel) ==
    LET matchingArcs == {j \in 1..Len(t.arcs) :
                            t.arcs[j].source = source /\ t.arcs[j].target = target}
    IN IF matchingArcs = {} THEN Warn(t, WarnNoArc)
       ELSE IF Cardinality(matchingArcs) > 1 THEN Warn(t, WarnManyArcs)
       ELSE LET arcIndex == CHOOSE j \in matchingArcs : TRUE
            IN Then(Requested([t EXCEPT !.arcs[arcIndex].color = newColor,
                                        !.arcs[arcIndex].label = newLabel],
                              {"arcs"}),
                    drawArcs)

\* updateLocationArcColor(name, newArcColor) of "hub"
updateLocationArcColor(t, name, newArcColor) ==
    LET locIndex == Find(t.locations, name)
    IN IF locIndex = 0 THEN Warn(t, WarnNoLocation)
       ELSE Then(highlightPoints([t EXCEPT !.locations[locIndex].arcColor =
                                        ColorOr(newArcColor, @)]),
                 drawArcs)

\* converters that log the SyntaxError and keep the value the property had
fromAttributeKeeping(t, prop, text) ==
    LET parsed == JSONParse(text)
    IN CASE prop = "locations" ->
                Requested(IF parsed.ok THEN [t EXCEPT !.locations = parsed.value]
                          ELSE Warn(t, ErrorLocationsJson),
                          {"locations"})
         [] prop = "arcs" ->
                Requested(IF parsed.ok THEN [t EXCEPT !.arcs = parsed.value]
                          ELSE Warn(t, ErrorArcsJson),
                          {"arcs"})
         [] prop = "centralLocation" ->
                Requested(IF parsed.ok THEN [t EXCEPT !.centralLocation = parsed.value]
                          ELSE Warn(t, ErrorCentralJson),
                          {"centralLocation"})

\* the locations, arcs and central-location converters: JSON.parse, or on a
\* SyntaxError console.error and the default
fromAttribute(t, prop, text) ==
    LET parsed == JSONParse(text)
    IN CASE prop = "locations" ->
                Requested(IF parsed.ok THEN [t EXCEPT !.locations = parsed.value]
                          ELSE Warn([t EXCEPT !.locations = <<>>], ErrorLocationsJson),
                          {"locations"})
         [] prop = "arcs" ->
                Requested(IF parsed.ok THEN [t EXCEPT !.arcs = parsed.value]
                          ELSE Warn([t EXCEPT !.arcs = <<>>], ErrorArcsJson),
                          {"arcs"})
         [] prop = "centralLocation" ->
                Requested(IF parsed.ok THEN [t EXCEPT !.centralLocation = parsed.value]
                          ELSE Warn([t EXCEPT !.centralLocation = Loc("Home", 0, 0)],
                                    ErrorCentralJson),
                          {"centralLocation"})

\* ------------------------------------------------------------- gestures
\* the rotation moving by half the pointer's movement whatever the zoom
TurnUnscaled(t, d) == Num(TruncDiv(d, 2))

\* the 'drag' listener of makeGlobeDraggable: the rotation moves by half the
\* pointer's movement, in "latest" and "hub" times 100 / getZoom()
Turn(t, d) ==
    IF t.rev \in {"latest", "hub"}
    THEN (IF t.projection.scale.k = "inf" THEN Num(0)
          ELSE IF t.projection.scale.k = "nan" \/ t.projection.scale.v = 0 THEN NaN
          ELSE Num(TruncDiv(d * 100, 2 * t.projection.scale.v)))
    ELSE Num(TruncDiv(d, 2))

\* a + b, a - b on JavaScript numbers that are finite or NaN
JsPlus(a, b) == IF a.k = "num" /\ b.k = "num" THEN Num(a.v + b.v) ELSE NaN
JsMinus(a, b) == IF a.k = "num" /\ b.k = "num" THEN Num(a.v - b.v) ELSE NaN

\* a 'drag' listener that pans: it moves the translation with the pointer
draggedPanning(t, x, y) ==
    LET t1 == [t EXCEPT !.projection.translate =
                            <<@[1] + x - t.startRotate[1], @[2] + y - t.startRotate[2]>>,
                        !.startRotate = <<x, y>>]
    IN Then(highlightPoints(t1), drawArcs)

dragged(t, x, y) ==
    LET dx == x - t.startRotate[1]
        dy == y - t.startRotate[2]
        rotation == t.projection.rotate
        t1 == [t EXCEPT !.projection.rotate =
                            Rotated(JsPlus(rotation[1], Turn(t, dx)),
                                    JsMinus(rotation[2], Turn(t, dy))),
                        !.startRotate = <<x, y>>]
    IN Then(highlightPoints(t1), drawArcs)

\* k * num / den
ScaleBy(k, f) == IF k.k = "num" THEN Num(TruncDiv(k.v * f[1], f[2])) ELSE k

\* d3-zoom on a wheel or pinch event: the new k is clamped into the scale extent;
\* a wheel that leaves k as it is emits nothing
zoomed(t, type, f) ==
    LET k == JsMax(t.zoom.scaleExtent[1], JsMin(t.zoom.scaleExtent[2], ScaleBy(t.zoomK, f)))
    IN IF ~(type = "wheel" \/ type = "touchmove") THEN t
       ELSE IF type = "wheel" /\ k.k # "nan" /\ k = t.zoomK THEN t
       ELSE handleZoom([t EXCEPT !.zoomK = k, !.transition = NoTransition], k)

\* ----------------------------------------------------------- construction
NoLocation == Loc(Undefined, 0, 0)
NoProjection == [rotate |-> <<Num(0), Num(0)>>, scale |-> Num(0), translate |-> <<0, 0>>]
NoSvg == [width |-> 0, height |-> 0, points |-> <<>>, arcs |-> <<>>,
          pointGroups |-> 0, arcGroups |-> 0]
NoZoom == [scaleExtent |-> <<Num(0), Inf>>]

\* what the converter makes of an attribute of the markup
Converted(text) == IF JSONParse(text).ok THEN JSONParse(text).value ELSE <<>>

\* The element after its constructor and the attributes of its markup: the
\* center, the locations and the arcs are those of the markup, in place of the
\* cities the constructor lists; nothing is rendered yet and the first update is
\* pending with every property the constructor assigned.
Init ==
    /\ rev \in Revs
    /\ lifecycle = "constructed"
    /\ \E c \in Centers :
          /\ longitude = (IF rev = "hub" THEN Num(0) ELSE Num(c[1]))
          /\ latitude = (IF rev = "hub" THEN Num(0) ELSE Num(c[2]))
    /\ \E text \in CentralTexts :
          centralLocation = IF rev # "hub" THEN NoLocation
                            ELSE IF JSONParse(text).ok THEN JSONParse(text).value
                            ELSE Loc("Home", 0, 0)
    /\ \E text \in LocationsTexts :
          locations = IF HasLocations(rev) THEN Converted(text) ELSE <<>>
    /\ \E text \in ArcsTexts :
          arcs = IF HasArcsProperty(rev) THEN Converted(text) ELSE <<>>
    /\ projection = NoProjection
    /\ zoom = NoZoom
    /\ zoomK = Num(1)
    /\ initialScale = Num(0)
    /\ svg = NoSvg
    /\ startRotate = <<0, 0>>
    /\ pressed = FALSE
    /\ transition = NoTransition
    /\ changed = Watched(rev)
    /\ windowListeners = {}
    /\ closures = 0
    /\ size = FirstSize
    /\ last = [op |-> "constructor", arg |-> [none |-> TRUE], console |-> {},
               threw |-> FALSE, was |-> [locations |-> 0, arcs |-> 0]]
    /\ ops = 0

\* the handler's `this` becomes the element's state
Commit(t, op, arg) ==
    /\ rev' = rev
    /\ lifecycle' = t.lifecycle
    /\ longitude' = t.longitude
    /\ latitude' = t.latitude
    /\ centralLocation' = t.centralLocation
    /\ locations' = t.locations
    /\ arcs' = t.arcs
    /\ projection' = t.projection
    /\ zoom' = t.zoom
    /\ zoomK' = t.zoomK
    /\ initialScale' = t.initialScale
    /\ svg' = t.svg
    /\ startRotate' = t.startRotate
    /\ transition' = t.transition
    /\ changed' = t.changed
    /\ windowListeners' = t.windowListeners
    /\ closures' = t.closures
    /\ last' = [op |-> op, arg |-> arg, console |-> t.console, threw |-> t.threw,
                was |-> [locations |-> Len(locations), arcs |-> Len(arcs)]]
    /\ ops' = ops + 1

NoArg == [none |-> TRUE]

\* an update is pending: no event is dispatched before Lit has performed it
Settled == lifecycle # "constructed" /\ changed = {}

\* ---------------------------------------------------------------- actions
\* Lit's first update: firstUpdated, then updated with every changed property
FirstRender ==
    /\ ops < MaxOps
    /\ lifecycle = "constructed"
    /\ \E t1 \in {firstUpdated(This)} :
          \E t \in {[updated(t1, changed) EXCEPT !.changed = {}]} :
             Commit(t, "firstUpdated", NoArg)
    /\ UNCHANGED <<size, pressed>>

\* a later update
Update ==
    /\ ops < MaxOps
    /\ lifecycle # "constructed"
    /\ changed # {}
    /\ \E t \in {[updated(This, changed) EXCEPT !.changed = {}]} :
          Commit(t, "updated", NoArg)
    /\ UNCHANGED <<size, pressed>>

\* the element is removed from the document
Disconnect ==
    /\ ops < MaxOps
    /\ lifecycle = "rendered"
    /\ \E t \in {disconnectedCallback(This)} :
          Commit(t, "disconnectedCallback", NoArg)
    /\ pressed' = FALSE
    /\ UNCHANGED size

\* the window is resized: every listener registered for 'resize' runs
WindowResize ==
    /\ ops < MaxOps
    /\ Settled
    /\ windowListeners # {}
    /\ \E s \in Sizes :
          /\ size' = (IF lifecycle = "rendered" THEN s ELSE size)
          /\ \E offset \in {IF lifecycle = "rendered" THEN s ELSE <<0, 0>>} :
                \E t \in {handleResize([This EXCEPT !.offset = offset])} :
                   Commit(t, "handleResize", [offset |-> offset])
    /\ UNCHANGED pressed

\* the longitude and latitude attributes or properties are set
SetCenter ==
    /\ ops < MaxOps
    /\ rev # "hub"
    /\ \E c \in Centers :
          /\ <<longitude, latitude>> # Coord(c)
          /\ \E t \in {Requested([This EXCEPT !.longitude = Num(c[1]),
                                              !.latitude = Num(c[2])],
                                 {p \in {"longitude"} : longitude # Num(c[1])}
                                 \cup {p \in {"latitude"} : latitude # Num(c[2])})} :
                Commit(t, "setCenter", [center |-> c])
    /\ UNCHANGED <<size, pressed>>

\* the locations, arcs or central-location attribute is set
SetAttribute ==
    /\ ops < MaxOps
    /\ \E prop \in Watched(rev) \ {"longitude", "latitude"} :
          \E text \in (CASE prop = "locations" -> {TextLocA, TextLocTruncated}
                         [] prop = "arcs" -> {TextArcAB, TextArcUnquoted}
                         [] prop = "centralLocation" -> CentralTexts) :
             \E t \in {fromAttribute(This, prop, text)} :
                Commit(t, "fromAttribute", [prop |-> prop, text |-> text])
    /\ UNCHANGED <<size, pressed>>

\* a caller calls addLocation
AddLocation ==
    /\ ops < MaxOps
    /\ HasZoom(rev)
    /\ Len(locations) < MaxLocs
    /\ \E location \in LocationArgs :
          \E t \in {addLocation(This, location)} :
             Commit(t, "addLocation", location)
    /\ UNCHANGED <<size, pressed>>

\* a caller calls removeLocation
RemoveLocation ==
    /\ ops < MaxOps
    /\ HasZoom(rev)
    /\ \E name \in Names :
          \E t \in {removeLocation(This, name)} :
             Commit(t, "removeLocation", [name |-> name])
    /\ UNCHANGED <<size, pressed>>

\* a caller calls addArc
AddArc ==
    /\ ops < MaxOps
    /\ HasArcsProperty(rev)
    /\ Len(arcs) < MaxArcs
    /\ \E arc \in ArcArgs :
          \E t \in {addArc(This, arc)} :
             Commit(t, "addArc", arc)
    /\ UNCHANGED <<size, pressed>>

\* a caller calls removeArc
RemoveArc ==
    /\ ops < MaxOps
    /\ HasArcsProperty(rev)
    /\ \E label \in Labels :
          \E t \in {removeArc(This, label)} :
             Commit(t, "removeArc", [label |-> label])
    /\ UNCHANGED <<size, pressed>>

\* a caller calls updateArc
UpdateArc ==
    /\ ops < MaxOps
    /\ rev = "latest"
    /\ \E source \in {"a", "c"}, newLabel \in Labels, newColor \in {"green"} :
          \E t \in {updateArc(This, source, "b", newColor, newLabel)} :
             Commit(t, "updateArc", [source |-> source, target |-> "b",
                                     color |-> newColor, label |-> newLabel])
    /\ UNCHANGED <<size, pressed>>

\* a caller calls updateLocationArcColor
UpdateLocationArcColor ==
    /\ ops < MaxOps
    /\ rev = "hub"
    /\ \E name \in {"a", "c"}, newArcColor \in {"green", Undefined} :
          \E t \in {updateLocationArcColor(This, name, newArcColor)} :
             Commit(t, "updateLocationArcColor", [name |-> name, color |-> newArcColor])
    /\ UNCHANGED <<size, pressed>>

\* a caller calls setZoom
SetZoom ==
    /\ ops < MaxOps
    /\ HasZoom(rev)
    /\ \E zoomLevel \in ZoomLevels :
          \E t \in {setZoom(This, zoomLevel)} :
             Commit(t, "setZoom", [zoomLevel |-> zoomLevel])
    /\ UNCHANGED <<size, pressed>>

\* a caller calls getZoom
GetZoom ==
    /\ ops < MaxOps
    /\ HasZoom(rev)
    /\ \E t \in {getZoom(This)} :
          Commit(t, "getZoom", [returned |-> projection.scale])
    /\ UNCHANGED <<size, pressed>>

\* the transition setZoom scheduled reaches its end: the zoom transform is the
\* level asked for, and the zoom event is emitted
TransitionEnd ==
    /\ ops < MaxOps
    /\ Settled
    /\ transition # NoTransition
    /\ \E t \in {zoomTransform(This, transition)} :
          Commit(t, "transition", [k |-> transition])
    /\ UNCHANGED <<size, pressed>>

\* the pointer goes down on the svg: the 'start' listener of the drag behaviour
DragStart ==
    /\ ops < MaxOps
    /\ Settled
    /\ lifecycle = "rendered"
    /\ ~pressed
    /\ \E x \in {0, 180}, y \in {0, 180} :
          \E t \in {[This EXCEPT !.startRotate = <<x, y>>]} :
             /\ <<x, y>> \in Pointers
             /\ Commit(t, "dragstart", [x |-> x, y |-> y])
    /\ pressed' = TRUE
    /\ UNCHANGED size

\* the pointer moves while down: the 'drag' listener
DragMove ==
    /\ ops < MaxOps
    /\ Settled
    /\ pressed
    /\ \E x \in {0, 180}, y \in {0, 180} :
          /\ <<x, y>> \in Pointers
          /\ <<x, y>> # startRotate
          /\ \E t \in {dragged(This, x, y)} :
                Commit(t, "drag", [dx |-> x - startRotate[1], dy |-> y - startRotate[2]])
    /\ UNCHANGED <<size, pressed>>

\* the pointer goes up: the 'end' listener (only the cursor changes)
DragEnd ==
    /\ ops < MaxOps
    /\ Settled
    /\ pressed
    /\ \E t \in {This} :
          Commit(t, "dragend", NoArg)
    /\ pressed' = FALSE
    /\ UNCHANGED size

\* a wheel, pinch or mouse event reaches the zoom behaviour
ZoomGesture ==
    /\ ops < MaxOps
    /\ Settled
    /\ lifecycle = "rendered"
    /\ HasZoom(rev)
    /\ \E type \in ZoomEventTypes, f \in ZoomFactors :
          \E t \in {zoomed(This, type, f)} :
             Commit(t, type, [factor |-> f])
    /\ UNCHANGED <<size, pressed>>

Next ==
    \/ FirstRender
    \/ Update
    \/ Disconnect
    \/ WindowResize
    \/ SetCenter
    \/ SetAttribute
    \/ AddLocation
    \/ RemoveLocation
    \/ AddArc
    \/ RemoveArc
    \/ UpdateArc
    \/ UpdateLocationArcColor
    \/ SetZoom
    \/ GetZoom
    \/ TransitionEnd
    \/ DragStart
    \/ DragMove
    \/ DragEnd
    \/ ZoomGesture

Spec == Init /\ [][Next]_vars

\* ================================================================== claims
\* a <= b on JavaScript numbers
JsLe(a, b) == a.k # "nan" /\ b.k # "nan" /\ ~JsLt(b, a)

\* what a handler that rejects its input leaves alone: everything of the element
Untouched ==
    UNCHANGED << lifecycle, longitude, latitude, centralLocation, locations, arcs,
                 projection, zoom, zoomK, initialScale, svg, startRotate, pressed,
                 transition, changed, windowListeners, size >>

\* ---- C1
\* C1: the 'resize' listener firstUpdated registers is deregistered by
\* disconnectedCallback: once the element is disconnected no resize event runs
\* handleResize on it.
C1_NoResizeAfterTeardown ==
    [][lifecycle = "disconnected" => last'.op # "handleResize"]_vars

\* ---- C2
\* new is old without the elements Dropped, the others unchanged and in order
KeptInOrder(old, new, Dropped(_)) ==
    \E f \in [1..Len(new) -> 1..Len(old)] :
        /\ \A i, j \in 1..Len(new) : i < j => f[i] < f[j]
        /\ \A i \in 1..Len(new) : new[i] = old[f[i]]
        /\ \A k \in 1..Len(old) : (\E i \in 1..Len(new) : f[i] = k) <=> ~Dropped(old[k])

\* C2: removeLocation(name) cascades: afterwards no location is named `name` and
\* no arc has `name` as its source or target; every other location and every
\* other arc is kept, unchanged and in its order.  (The arcs that name locations
\* are those of "labels" and "latest".)
C2_RemoveLocationCascades ==
    [][last'.op = "removeLocation" =>
        /\ KeptInOrder(locations, locations', LAMBDA loc : loc.name = last'.arg.name)
        /\ HasArcsProperty(rev) =>
              KeptInOrder(arcs, arcs',
                          LAMBDA arc : arc.source = last'.arg.name
                                       \/ arc.target = last'.arg.name)]_vars

\* removeLocation("c") took c out of a, b, c and the arc b -> c with it, and kept
\* the arc a -> b
C2_Witness ==
    /\ last.op = "removeLocation"
    /\ last.arg.name = "c"
    /\ HasArcsProperty(rev)
    /\ last.was.locations = 3
    /\ last.was.arcs = 2
    /\ Len(locations) = 2
    /\ arcs = <<Arc("a", "b", "green", "x")>>

\* ---- C3
\* C3: addArc with the label of an arc already in the list is rejected: the arcs,
\* the locations and the projection (and everything else) are unchanged, a warning
\* is logged.
C3_DuplicateLabelRejected ==
    [][(/\ last'.op = "addArc"
        /\ last'.arg.t = "object"
        /\ \E j \in 1..Len(arcs) : arcs[j].label = last'.arg.label)
       => Untouched /\ ~last'.threw /\ last'.console # {}]_vars

\* addArc was called with the label of an arc of the list, its end points being
\* among the locations
C3_Witness ==
    /\ last.op = "addArc"
    /\ last.console = {WarnArcLabel}
    /\ \E j \in 1..Len(arcs) : arcs[j].label = last.arg.label

\* ---- C4
\* the argument of addLocation has a longitude outside [-180, 180] or a latitude
\* outside [-90, 90]
C4_OutOfRangeArgument(arg) ==
    /\ arg.t = "object"
    /\ arg.isArray
    /\ Len(arg.coordinates) = 2
    /\ NotNumber \notin {arg.coordinates[1], arg.coordinates[2]}
    /\ \/ arg.coordinates[1] < -180
       \/ arg.coordinates[1] > 180
       \/ arg.coordinates[2] < -90
       \/ arg.coordinates[2] > 90

\* C4 as stated: addLocation with a longitude outside [-180, 180] or a latitude
\* outside [-90, 90] is rejected: the locations and all other state are unchanged
\* and a warning is recorded.
C4_OutOfRangeRejected ==
    [][last'.op = "addLocation" /\ C4_OutOfRangeArgument(last'.arg)
       => Untouched /\ last'.console # {}]_vars

\* C4, amended: so it is in the revisions that check the range, "latest" and
\* "hub"; "zoom" and "labels" check the shape only and append the location.
C4_OutOfRangeRejectedLater ==
    [][last'.op = "addLocation" /\ C4_OutOfRangeArgument(last'.arg)
       => IF rev \in {"latest", "hub"}
          THEN Untouched /\ last'.console = {WarnInvalidLonLat} /\ ~last'.threw
          ELSE locations' = Append(locations, [name |-> last'.arg.name,
                                               coordinates |-> last'.arg.coordinates,
                                               arcColor |-> last'.arg.arcColor])]_vars

\* addLocation was called with latitude -91 in a revision that checks the range
C4_Witness ==
    /\ last.op = "addLocation"
    /\ last.arg.t = "object"
    /\ last.arg.coordinates = <<0, -91>>
    /\ rev \in {"latest", "hub"}
    /\ last.console = {WarnInvalidLonLat}

\* ---- C5
\* the angular distance, in degrees, of coordinates from the current view center
C5_Angle(coordinates) ==
    GeoDistance(Coord(coordinates), ViewCenter(projection.rotate))

\* what is drawn for the location of index i (0: the one point of "point", the
\* central location of "hub"): the circles, and the names beside them
C5_Circles(i) == {p \in 1..Len(svg.points) : svg.points[p].loc = i}
C5_Labels(i) ==
    {svg.points[p].label : p \in {q \in C5_Circles(i) : svg.points[q].label # Undefined}}

C6_EndPoints(j) ==
    IF rev = "hub" THEN <<centralLocation.coordinates, locations[j].coordinates>>
    ELSE IF GeneratesArcs(rev) THEN arcs[j].geometry
    ELSE << locations[Find(locations, arcs[j].source)].coordinates,
            locations[Find(locations, arcs[j].target)].coordinates >>

\* C6: an arc's path is drawn only if both of its end points are at an angular
\* distance strictly below 90 degrees from the view center; with an end point at
\* 90 degrees or beyond nothing of the arc is drawn, in every revision that draws
\* arcs.
C6_ArcCulling ==
    Settled /\ rev # "point" =>
        \A j \in 1..Len(svg.arcs) :
            svg.arcs[j].d # "null" =>
                /\ JsLt(C5_Angle(C6_EndPoints(j)[1]), Num(90))
                /\ JsLt(C5_Angle(C6_EndPoints(j)[2]), Num(90))

\* ---- C7
\* the arc names a location that is not in the list
C7_Dangling(arc) == Find(locations, arc.source) = 0 \/ Find(locations, arc.target) = 0

\* what is drawn for each arc of the items: the path, its stroke, the label
C7_Drawn(items) ==
    [j \in 1..Len(items) |-> [d |-> items[j].d, stroke |-> items[j].stroke,
                              label |-> items[j].label, labelAt |-> items[j].labelAt]]

\* the arcs drawn for the arcs that are not dangling, in their order
C7_DrawnOfOthers ==
    C7_Drawn(SelectSeq(svg.arcs, LAMBDA item : ~C7_Dangling(arcs[item.arc])))

\* a rendering of the element as it is, the dangling arcs taken out of the list
C7_WithoutDangling ==
    updateProjection([This EXCEPT !.arcs = SelectSeq(@, LAMBDA arc : ~C7_Dangling(arc))])

\* C7: an arc whose source or target names no location is skipped at render
\* time: the rendering does not fail, the arc gets no path, and every other arc
\* and every point is drawn exactly as if the dangling arc were not in the list.
C7_DanglingArcsSkipped ==
    Settled /\ HasArcsProperty(rev) =>
        /\ last.op \in {"firstUpdated", "updated"} => ~last.threw
        /\ Len(svg.arcs) = Len(arcs)
        /\ \A j \in 1..Len(arcs) :
              /\ svg.arcs[j].arc = j
              /\ C7_Dangling(arcs[j]) => svg.arcs[j].d = "null"
        /\ C7_DrawnOfOthers = C7_Drawn(C7_WithoutDangling.svg.arcs)
        /\ svg.points = C7_WithoutDangling.svg.points

\* rendered with a dangling arc in the list (the warning is on the console) and
\* another arc, whose path is drawn
C7_Witness ==
    /\ Settled
    /\ HasArcsProperty(rev)
    /\ last.op = "updated"
    /\ WarnArcNotFound \in last.console
    /\ \E i, j \in 1..Len(arcs) :
          /\ C7_Dangling(arcs[i])
          /\ ~C7_Dangling(arcs[j])
          /\ svg.arcs[j].d # "null"

\* ---- C8
\* the last call was given an invalid input: an attribute text that is not JSON,
\* no argument, a location without two coordinates or (where the range is
\* checked) outside it, an arc without a label
C8_InvalidInput ==
    \/ last.op = "fromAttribute" /\ ~JSONParse(last.arg.text).ok
    \/ /\ last.op = "addLocation"
       /\ \/ ~WellFormed(last.arg)
          \/ rev \in {"latest", "hub"} /\ OutOfRange(last.arg.coordinates)
    \/ /\ last.op = "addArc"
       /\ \/ last.arg.t = "undefined"
          \/ last.arg.label = Undefined

\* C8: no invalid input is fatal: whatever invalid configuration value or
\* argument of a public operation is given, a warning is logged, the input is
\* discarded and no exception leaves the component.
C8_NoInvalidInputFatal ==
    C8_InvalidInput => ~last.threw /\ last.console # {}

\* ---- C9
\* the attribute text given last is not JSON
C9_ParseFailure(l) == l.op = "fromAttribute" /\ ~JSONParse(l.arg.text).ok

\* what a parse failure leaves of the locations and the arcs: the empty list, an
\* error on the console, nothing thrown, and an update that does not throw
C9_EmptyList ==
    /\ C9_ParseFailure(last') =>
          /\ ~last'.threw
          /\ last'.console # {}
          /\ last'.arg.prop = "locations" => locations' = <<>>
          /\ last'.arg.prop = "arcs" => arcs' = <<>>
          /\ last'.arg.prop \in changed'
    /\ C9_ParseFailure(last) /\ last'.op \in {"firstUpdated", "updated"} =>
          /\ ~last'.threw
          /\ lifecycle' = "rendered" => svg'.points = highlightPoints(This').svg.points

\* C9 as stated: an attribute text that is not JSON makes locations (arcs) the
\* empty list, logs an error and the widget keeps rendering; the default of the
\* central location of "hub" is an empty one as well.
C9_EmptyDefault ==
    [][/\ C9_EmptyList
       /\ C9_ParseFailure(last') /\ last'.arg.prop = "centralLocation" =>
             centralLocation'.name = Undefined]_vars

\* C9, amended: the default of the central location is the location named Home
\* at [0, 0].
C9_ParseFailureDefault ==
    [][/\ C9_EmptyList
       /\ C9_ParseFailure(last') /\ last'.arg.prop = "centralLocation" =>
             centralLocation' = Loc("Home", 0, 0)]_vars

\* a locations text that is not JSON has emptied a list that had locations, on
\* an element that is rendered
C9_Witness ==
    /\ C9_ParseFailure(last)
    /\ lifecycle = "rendered"
    /\ ErrorLocationsJson \in last.console
    /\ last.was.locations > 0
    /\ locations = <<>>

\* ---- C10
\* lo <= x <= hi
C10_Within(x, lo, hi) == JsLe(lo, x) /\ JsLe(x, hi)

\* the last event was a wheel or a touch event, which d3-zoom's filter lets in
C10_ZoomEvent(l) == l.op \in {"wheel", "touchmove"}

\* [s / 10, s * 3] in "latest" and "hub", [s / 2, s * 3] in "zoom" and "labels"
C10_Range(s) ==
    << IF rev \in {"latest", "hub"} THEN JsDivBy(s, 10) ELSE JsDivBy(s, 2), JsTimes(s, 3) >>

\* C10 as stated: after any wheel or touch zoom event the projection scale is
\* within [initialScale / 2, initialScale * 3] (earlier revisions) or
\* [initialScale / 10, initialScale * 3] (later revisions), initialScale being
\* the scale derived from the container size.
C10_ZoomWithinInitialRange ==
    C10_ZoomEvent(last) =>
        C10_Within(projection.scale, C10_Range(initialScale)[1], C10_Range(initialScale)[2])

\* C10, amended: the range is the zoom behaviour's scale extent, which the first
\* render and a resize put around initialScale and a fit to the locations puts
\* around the fitted scale; after a wheel or touch event the scale is within it.
\* A value beyond it is clamped to the nearer bound in the zoom transform, and
\* the transform's k becomes the scale whenever d3-zoom emits the zoom event: a
\* touch event, or a wheel event that changes k.
C10_ZoomWithinExtent ==
    [][/\ C10_ZoomEvent(last') =>
             /\ zoom' = zoom
             /\ zoom.scaleExtent = C10_Range(JsDivBy(zoom.scaleExtent[2], 3))
             /\ C10_Within(projection'.scale, zoom.scaleExtent[1], zoom.scaleExtent[2])
             /\ JsLt(ScaleBy(zoomK, last'.arg.factor), zoom.scaleExtent[1]) =>
                   zoomK' = zoom.scaleExtent[1]
             /\ JsLt(zoom.scaleExtent[2], ScaleBy(zoomK, last'.arg.factor)) =>
                   zoomK' = zoom.scaleExtent[2]
             /\ IF last'.op = "touchmove" \/ zoomK' # zoomK
                THEN projection'.scale = zoomK'
                ELSE projection' = projection
       /\ last'.op \in {"firstUpdated", "handleResize"} /\ HasZoom(rev) /\ ~last'.threw =>
             zoom'.scaleExtent =
                C10_Range(IF locations' = <<>> THEN initialScale' ELSE projection'.scale)]_vars

\* wheel events have zoomed out of a view fitted to three locations down to the
\* lower bound of the scale extent, which is below the range around initialScale
C10_Witness ==
    /\ last.op = "wheel"
    /\ Len(locations) = 3
    /\ projection.scale = zoom.scaleExtent[1]
    /\ JsLt(projection.scale, C10_Range(initialScale)[1])

\* ---- C11
\* z clamped into [lo, hi]
C11_Clamped(z, lo, hi) == IF JsLt(z, lo) THEN lo ELSE IF JsLt(hi, z) THEN hi ELSE z

\* C11: on a rendered component setZoom(z) raises no error, whatever the number
\* z; when its transition has run to its end, the scale, which is what getZoom()
\* returns, is z clamped into the zoom range of that moment.
C11_SetZoomClampedSilently ==
    [][lifecycle = "rendered" =>
          /\ last'.op = "setZoom" =>
                /\ ~last'.threw
                /\ last'.console = {}
                /\ transition' = last'.arg.zoomLevel
                /\ projection' = projection
          /\ last'.op = "transition" =>
                /\ ~last'.threw
                /\ projection'.scale =
                      C11_Clamped(transition, zoom.scaleExtent[1], zoom.scaleExtent[2])
                /\ transition' = NoTransition
          /\ last'.op = "getZoom" =>
                /\ ~last'.threw
                /\ last'.arg.returned = projection.scale
                /\ projection' = projection]_vars

\* the transition of setZoom(1000) has ended on a finite zoom range that ends
\* below 1000: the scale is the upper bound
C11_Witness ==
    /\ last.op = "transition"
    /\ last.arg.k = Num(1000)
    /\ zoom.scaleExtent[2].k = "num"
    /\ projection.scale = zoom.scaleExtent[2]
    /\ JsLt(projection.scale, Num(1000))

\* ---- C12
\* the degrees a pointer movement of d pixels turns the globe by: d / 2, in the
\* revisions that scale by the zoom times num / getZoom()
C12_Degrees(d, num) ==
    IF rev \notin {"latest", "hub"} THEN TruncDiv(d, 2)
    ELSE IF projection.scale.k = "inf" THEN 0
    ELSE TruncDiv(d * num, 2 * projection.scale.v)

\* a move event of a drag, the pointer having moved by (dx, dy) since the event
\* before it, turns the rotation by C12_Degrees of dx and minus that of dy (d3
\* keeps the angles % 360), and the next event's movement counts from here: the
\* amounts of the events of a gesture add up. An angle that is NaN (the fit of
\* locations that cancel) stays NaN, and a scale of 0 or NaN makes the angles NaN
C12_Dragged(num) ==
    last'.op = "drag" =>
        /\ \A i \in {1, 2} :
              projection'.rotate[i] =
                 IF projection.rotate[i].k # "num" THEN NaN
                 ELSE IF rev \in {"latest", "hub"} /\ projection.scale \in {NaN, Num(0)}
                 THEN NaN
                 ELSE Num(JsMod360(projection.rotate[i].v
                        + (IF i = 1 THEN C12_Degrees(last'.arg.dx, num)
                           ELSE -C12_Degrees(last'.arg.dy, num))))
        /\ startRotate' = << startRotate[1] + last'.arg.dx, startRotate[2] + last'.arg.dy >>
        /\ projection'.scale = projection.scale

\* C12 as stated: a drag of (dx, dy) pixels changes the rotation by
\* (dx / 2, -dy / 2) degrees at zoom level 1, and by that times 1 / zoom in the
\* revisions that scale the rotation by the zoom, zoom being what getZoom()
\* returns.
C12_DragByOneOverZoom == [][C12_Dragged(1)]_vars

\* C12, amended: the revisions that scale the rotation multiply it by
\* 100 / getZoom(), getZoom() being the projection scale in pixels.
C12_DragByHundredOverZoom == [][C12_Dragged(100)]_vars

\* a drag of 180 pixels to the right on a globe of "latest" fitted at the scale
\* 160 has turned it by 180 / 2 * 100 / 160 = 56 degrees, not by 90
C12_Witness ==
    /\ last.op = "drag"
    /\ last.arg.dx = 180
    /\ rev = "latest"
    /\ projection.scale = Num(160)
    /\ projection.rotate[1] = Num(-90 + 56)

\* ---- C13
\* the projection is fitted to the current locations: the rotation centers their
\* centroid, the scale is the fit scale of the container's size
C13_Fitted ==
    \E cs \in {FitCoordinates(This)} :
       \E centroid \in {GeoCentroid(cs)} :
          \E maxDistance \in {JsMin(MaxDistance(centroid, cs, Num(0)), Num(90))} :
             /\ projection.rotate = Rotated(JsNeg(centroid[1]), JsNeg(centroid[2]))
             /\ projection.scale =
                   RequiredScale(Min(Offset[1], Offset[2]) \div 2, maxDistance)

\* the points and the arcs drawn are those of the current lists and projection
C13_Rendered ==
    /\ svg.points = highlightPoints(This).svg.points
    /\ svg.arcs = drawArcs(generateArcs(This)).svg.arcs

\* a mutation that changes the list of locations or of arcs requests an update,
\* and the update, when there are locations, ends fitted and rendered
C13_UpdateRequested ==
    (/\ last'.op \in {"addLocation", "removeLocation", "addArc", "removeArc", "updateArc"}
     /\ HasZoom(rev))
    => /\ locations' # locations => "locations" \in changed'
       /\ HasArcsProperty(rev) /\ arcs' # arcs => "arcs" \in changed'

C13_UpdateRefits ==
    (/\ last.op = "updated"
     /\ HasZoom(rev)
     /\ locations # <<>>
     /\ ~last.threw)
    => changed = {} /\ C13_Fitted /\ C13_Rendered

\* updateLocationArcColor has changed a color on a rendered element
C13_ColorUpdated ==
    /\ last.op = "updateLocationArcColor"
    /\ lifecycle = "rendered"
    /\ last.console = {}
    /\ ~last.threw

\* C13 as stated: after each public mutation, updateLocationArcColor of "hub"
\* included, and the updates it leaves pending, the projection is fitted again
\* to the current locations and the points and arcs are rendered from the
\* current lists.
C13_EveryMutationRefits ==
    /\ [][C13_UpdateRequested]_vars
    /\ [](C13_UpdateRefits /\ (C13_ColorUpdated /\ changed = {} => C13_Fitted /\ C13_Rendered))

\* C13, amended: updateLocationArcColor requests no update and does not fit: it
\* renders the points and the arcs again under the projection as it is.
C13_ListMutationRefits ==
    /\ [][/\ C13_UpdateRequested
          /\ last'.op = "updateLocationArcColor" =>
                changed' = changed /\ projection' = projection /\ zoom' = zoom]_vars
    /\ [](C13_UpdateRefits /\ (C13_ColorUpdated => C13_Rendered))

\* the update a mutation requested on a rendered element has fitted the view to
\* the two locations a and b of the list: their centroid [45, 0] is centered
C13_Witness ==
    /\ last.op = "updated"
    /\ HasZoom(rev)
    /\ ops = MaxOps
    /\ Len(locations) = 2
    /\ C13_Fitted
    /\ projection.rotate = <<Num(-45), Num(0)>>
    /\ projection.scale.k = "num"

\* ---- C14
\* the rotation that centers the configured center: [longitude, latitude], in
\* "hub", which has neither, the central location
C14_Centered ==
    IF rev = "hub"
    THEN << Num(JsMod360(-centralLocation.coordinates[1])),
            Num(JsMod360(-centralLocation.coordinates[2])) >>
    ELSE << Num(JsMod360(-longitude.v)), Num(JsMod360(-latitude.v)) >>

\* C14: with an empty list of locations adjustProjectionToFitLocations changes
\* nothing (the rotation, the scale and the zoom range are as before: after a
\* resize they are those the resize has set from the container's size), and
\* after a property update the view is centered on the configured center.
C14_EmptyLocationsNotFitted ==
    locations = <<>> =>
        /\ adjustProjectionToFitLocations(This) = This
        /\ last.op = "handleResize" /\ ~last.threw =>
              /\ projection.scale = initialScale
              /\ zoom.scaleExtent = C10_Range(initialScale)
        /\ last.op \in {"firstUpdated", "updated"} /\ ~last.threw =>
              projection.rotate = C14_Centered

\* an update with no location in the list, after the longitude was set to 90,
\* has centered the view there
C14_Witness ==
    /\ last.op = "updated"
    /\ locations = <<>>
    /\ HasZoom(rev)
    /\ rev # "hub"
    /\ longitude = Num(90)
    /\ ops = MaxOps
    /\ projection.rotate = <<Num(-90), Num(0)>>

\* ---- C15
\* the largest angular distance from the centroid of the fitted coordinates to
\* one of them, as the forEach of the fit computes it
C15_RawDistance ==
    CHOOSE d \in {MaxDistance(c, FitCoordinates(This), Num(0)) :
                    c \in {GeoCentroid(FitCoordinates(This))}} : TRUE

\* the fit has just run on a list with locations
C15_JustFitted ==
    /\ last.op \in {"firstUpdated", "updated", "handleResize"}
    /\ HasZoom(rev)
    /\ locations # <<>>
    /\ ~last.threw

\* C15: for every list with locations the maxDistance the scale formula of the
\* fit is given is at most 90 degrees, also when a location is further than that
\* from the centroid: the scale is that of the formula at the distance, or at 90
\* degrees when the distance is beyond.
C15_MaxDistanceClamped ==
    C15_JustFitted =>
        \E maxDistance \in {IF JsLt(Num(90), C15_RawDistance) THEN Num(90)
                            ELSE C15_RawDistance} :
            /\ JsLe(maxDistance, Num(90))
            /\ projection.scale =
                  RequiredScale(Min(Offset[1], Offset[2]) \div 2, maxDistance)

\* fitted with a location 135 degrees from the centroid: the scale is that of 90
\* degrees, 0.8 times the radius
C15_Witness ==
    /\ C15_JustFitted
    /\ lifecycle = "rendered"
    /\ C15_RawDistance = Num(135)
    /\ projection.scale = Num((8 * (Min(size[1], size[2]) \div 2)) \div 10)

\* ---- C16
\* the configured center: centralLocation in "hub", [longitude, latitude] elsewhere
C16_Center ==
    IF rev = "hub" THEN centralLocation.coordinates
    ELSE IF longitude.k = "num" /\ latitude.k = "num" THEN <<longitude.v, latitude.v>>
    ELSE <<>>

\* setup is over and the one location is at the center ("point" has no list of
\* locations: its one point is the center)
C16_SetUpAtCenter ==
    /\ last.op = "firstUpdated"
    /\ ~last.threw
    /\ HasLocations(rev) =>
          Len(locations) = 1 /\ locations[1].coordinates = C16_Center

\* C16: with one location at the coordinates of the center, after setup the
\* angular distance between the location and the view center is 0, the circle of
\* the location is drawn, and its projected position is the viewport center, both
\* coordinates being numbers.
C16_CenterLocationRendered ==
    C16_SetUpAtCenter =>
        /\ GeoDistance(Coord(C16_Center), ViewCenter(projection.rotate)) = Num(0)
        /\ \E i \in 1..Len(svg.points) :
              svg.points[i].loc = (IF HasLocations(rev) THEN 1 ELSE 0)
        /\ Projected(C16_Center, projection) = Coord(projection.translate)

\* the same in the revisions without the fit
C16_CenterLocationRenderedUnfitted ==
    ~HasZoom(rev) => C16_CenterLocationRendered

\* ---- C17
\* C17: arc labels are unique: the arcs lists of the markup have pairwise distinct
\* labels, and in every state addArc, removeArc, updateArc and removeLocation
\* lead to from them no two arcs of the list have the same label.
C17_ArcLabelsUnique ==
    HasArcsProperty(rev) =>
        \A i, j \in 1..Len(arcs) : arcs[i].label = arcs[j].label => i = j

\* the same while updateArc has not been called: what addArc, removeArc and
\* removeLocation keep
C17_ArcLabelsUniqueUntilUpdateArc ==
    [][last'.op # "updateArc" /\ C17_ArcLabelsUnique => C17_ArcLabelsUnique']_vars

\* ---- C18
\* C18: location names are a unique key: the locations lists of the markup have
\* pairwise distinct names, and in every state addLocation and removeLocation lead
\* to from them no two locations of the list have the same name.
C18_LocationNamesUnique ==
    \A i, j \in 1..Len(locations) : locations[i].name = locations[j].name => i = j

\* a name of the list is only ever doubled by addLocation
C18_NamesUniqueUntilAddLocation ==
    [][last'.op # "addLocation" /\ C18_LocationNamesUnique
          => C18_LocationNamesUnique']_vars

\* ---- C19
\* this step is the first render, or the update for a changed longitude or
\* latitude, and it ran to its end
C19_CenterUpdated ==
    /\ \/ last'.op = "firstUpdated"
       \/ last'.op = "updated" /\ changed \cap {"longitude", "latitude"} # {}
    /\ ~last'.threw
    /\ lifecycle' = "rendered"

\* (-longitude, -latitude) as the projection keeps it
C19_MinusCenter == Rotated(JsNeg(longitude), JsNeg(latitude))

\* the rotation the update leaves: minus the center without locations, minus the
\* first location in the revisions without the fit, minus the centroid of the
\* fitted coordinates in those with it
C19_Rotation ==
    IF rev = "hub" /\ locations = <<>>
    THEN Rotated(Num(-centralLocation.coordinates[1]), Num(-centralLocation.coordinates[2]))
    ELSE IF rev = "point" \/ locations = <<>> THEN C19_MinusCenter
    ELSE IF ~HasZoom(rev)
    THEN Rotated(Num(-locations[1].coordinates[1]), Num(-locations[1].coordinates[2]))
    ELSE CHOOSE r \in {Rotated(JsNeg(c[1]), JsNeg(c[2])) :
                          c \in {GeoCentroid(FitCoordinates(This))}} : TRUE

C20_Matching(source, target) ==
    {j \in 1..Len(arcs) : arcs[j].source = source /\ arcs[j].target = target}

\* C20: updateArc(source, target, newColor, newLabel) with exactly one arc from
\* source to target gives that arc the new color and label and changes nothing
\* else: its source and target, the other arcs, the number and the order of the
\* arcs and the locations are as before. With no such arc, or more than one, it
\* logs a warning and changes nothing.
C20_UpdateArcChangesOneArc ==
    [][last'.op = "updateArc" =>
          \E m \in {C20_Matching(last'.arg.source, last'.arg.target)} :
             /\ locations' = locations
             /\ Cardinality(m) = 1 =>
                   /\ Len(arcs') = Len(arcs)
                   /\ \A j \in 1..Len(arcs) :
                         arcs'[j] = IF j \in m
                                    THEN [arcs[j] EXCEPT !.color = last'.arg.color,
                                                         !.label = last'.arg.label]
                                    ELSE arcs[j]
             /\ Cardinality(m) # 1 =>
                   /\ arcs' = arcs
                   /\ last'.console =
                         {IF m = {} THEN WarnNoArc ELSE WarnManyArcs}
                   /\ ~last'.threw
                   /\ <<projection', zoom', svg', changed', lifecycle'>>
                         = <<projection, zoom, svg, changed, lifecycle>>]_vars

\* the arc from a to b relabelled beside the arc from b to c, which is as it was
C20_Witness ==
    /\ last.op = "updateArc"
    /\ last.arg.label = "y"
    /\ lifecycle = "rendered"
    /\ arcs = <<Arc("a", "b", "green", "y"), Arc("b", "c", "red", "y")>>
    /\ Len(locations) = 3

\* updateArc has found two arcs from a to b
C20_WitnessMany ==
    /\ last.op = "updateArc"
    /\ last.console = {WarnManyArcs}
    /\ Len(arcs) = 2

\* ---- C21
\* the argument is a location whose coordinates are missing, not an array or not
\* of length two
C21_Misshapen(arg) ==
    /\ arg.t = "object"
    /\ ~arg.isArray \/ Len(arg.coordinates) # 2

\* the argument is a location whose coordinates are an array of two elements that
\* are not both numbers
C21_NotNumbers(arg) ==
    /\ arg.t = "object"
    /\ arg.isArray
    /\ Len(arg.coordinates) = 2
    /\ NotNumber \in {arg.coordinates[1], arg.coordinates[2]}

\* C21: addLocation validates the shape of the coordinates: for every argument
\* whose coordinates are missing, not an array, not of length two or not two
\* numbers the call logs a warning and changes neither the locations nor the arcs
\* nor the projection; so every location addLocation appends has two numeric
\* coordinates.
C21_CoordinatesValidated ==
    [][last'.op = "addLocation" =>
          /\ C21_Misshapen(last'.arg) \/ C21_NotNumbers(last'.arg) =>
                /\ <<locations', arcs', projection'>> = <<locations, arcs, projection>>
                /\ last'.console # {}
          /\ locations' # locations =>
                /\ Len(locations') = Len(locations) + 1
                /\ Len(locations'[Len(locations')].coordinates) = 2
                /\ Numeric(locations'[Len(locations')].coordinates)]_vars

\* the same of the coordinates that are missing, not an array or not of length
\* two, which the code does test
C21_MisshapenRejected ==
    [][last'.op = "addLocation" =>
          /\ C21_Misshapen(last'.arg) =>
                /\ <<locations', arcs', projection'>> = <<locations, arcs, projection>>
                /\ last'.console = {WarnInvalidLocation}
                /\ ~last'.threw
          /\ locations' # locations =>
                /\ Len(locations') = Len(locations) + 1
                /\ Len(locations'[Len(locations')].coordinates) = 2]_vars

\* ---- C22
\* what no gesture changes: the translation, the lists, the configured center
\* and the zoom range
C22_Kept ==
    <<projection'.translate, locations', arcs', longitude', latitude', centralLocation',
      zoom'.scaleExtent, initialScale'>>
    = <<projection.translate, locations, arcs, longitude, latitude, centralLocation,
        zoom.scaleExtent, initialScale>>

\* C22: gestures mutate only the projection: an event of a pointer drag changes
\* only the rotation of the projection, a wheel or touch zoom event (or the end
\* of the transition of setZoom, the same listener) only its scale; none changes
\* the translation of the projection, the locations or the arcs.
C22_GesturesMutateProjectionOnly ==
    [][/\ last'.op \in {"dragstart", "drag", "dragend"} =>
             C22_Kept /\ projection'.scale = projection.scale
       /\ last'.op \in {"dragstart", "dragend"} => projection' = projection
       /\ last'.op \in ZoomEventTypes \cup {"transition"} =>
             C22_Kept /\ projection'.rotate = projection.rotate
       /\ last'.op = "mousedown" => projection' = projection]_vars

\* a drag of 180 pixels has turned the globe of the revision without the fit from
\* its first location by 90 degrees, its arc and its translation being as before
C22_Witness ==
    /\ last.op = "drag"
    /\ last.arg = [dx |-> 180, dy |-> 0]
    /\ rev = "arcs"
    /\ Len(arcs) = 1
    /\ projection.rotate = <<Num(90), Num(0)>>
    /\ projection.translate = <<size[1] \div 2, size[2] \div 2>>

\* a wheel event has changed the scale from that of the fit
C22_WitnessZoom ==
    /\ last.op = "wheel"
    /\ Len(locations) = 2
    /\ projection.scale # zoom.scaleExtent[1]
    /\ projection.scale # zoom.scaleExtent[2]
    /\ JsLt(projection.scale, JsDivBy(JsTimes(zoom.scaleExtent[2], 1), 3))

C23_LabelAtMidpointOrOrigin ==
    HasArcsProperty(rev) =>
        \A j \in 1..Len(svg.arcs) :
            /\ svg.arcs[j].label # Undefined
            /\ svg.arcs[j].labelAt \in {"midpoint", "origin"}
            /\ svg.arcs[j].labelAt = "origin" => svg.arcs[j].d = "null"

\* ---- C24
\* removeArc has taken out the arcs with the label and nothing else: the other
\* arcs are kept, unchanged and in their order, and so are the locations
C24_Removed ==
    /\ KeptInOrder(arcs, arcs', LAMBDA arc : arc.label = last'.arg.label)
    /\ locations' = locations

\* C24 as stated: removeArc(label) removes every arc with the label and nothing
\* else, and when no arc has the label the call is a silent no-op: nothing is
\* logged and nothing of the element changes.
C24_RemoveArcOrNoOp ==
    [][last'.op = "removeArc" =>
          /\ C24_Removed
          /\ (\A j \in 1..Len(arcs) : arcs[j].label # last'.arg.label)
                => Untouched /\ last'.console = {} /\ ~last'.threw]_vars

\* C24: removeArc(label) removes every arc with the label and nothing else, logs
\* nothing and raises nothing; whether an arc had the label or not, it assigns
\* the arcs property, so that an update is requested for it, and leaves the rest
\* of the element as it is.
C24_RemoveArcRequestsUpdate ==
    [][last'.op = "removeArc" =>
          /\ C24_Removed
          /\ last'.console = {}
          /\ ~last'.threw
          /\ changed' = changed \cup {"arcs"}
          /\ UNCHANGED << lifecycle, longitude, latitude, centralLocation, projection,
                          zoom, zoomK, initialScale, svg, startRotate, pressed,
                          transition, windowListeners, size >>]_vars

\* removeArc("x") took the arc a -> b out of the rendered list and kept b -> c
C24_Witness ==
    /\ last.op = "removeArc"
    /\ last.arg.label = "x"
    /\ last.was.arcs = 2
    /\ arcs = <<Arc("b", "c", "red", "y")>>
    /\ lifecycle = "rendered"
    /\ "arcs" \in changed

\* removeArc("y") with no arc of that label, after the update of the first
\* render: an update is pending again
C24_WitnessAbsent ==
    /\ last.op = "removeArc"
    /\ last.arg.label = "y"
    /\ arcs = <<Arc("a", "b", "green", "x")>>
    /\ last.was.arcs = 1
    /\ lifecycle = "rendered"
    /\ changed = {"arcs"}

\* ---- C25
\* the indices i of the pairs of consecutive locations i, i + 1 whose coordinates
\* are both arrays of two elements
C25_ValidPairs ==
    {i \in 1..(Len(locations) - 1) :
        Len(locations[i].coordinates) = 2 /\ Len(locations[i + 1].coordinates) = 2}

\* a handler that calls generateArcs has just run in a revision that generates
\* the arcs
C25_JustGenerated ==
    /\ GeneratesArcs(rev)
    /\ last.op \in {"firstUpdated", "updated"}
    /\ ~last.threw

\* C25: after generateArcs the arcs are exactly one arc for each pair of
\* consecutive locations with two-element coordinates, in the order of the list:
\* n - 1 arcs for n >= 1 such locations, none for an empty list; a pair with a
\* location without two-element coordinates is left out and a warning logged;
\* no arc of an earlier generation is left.
C25_ArcsOfConsecutiveLocations ==
    C25_JustGenerated =>
        /\ Len(arcs) = Cardinality(C25_ValidPairs)
        /\ \E f \in [1..Len(arcs) -> C25_ValidPairs] :
              /\ \A j, k \in 1..Len(arcs) : j < k => f[j] < f[k]
              /\ \A k \in 1..Len(arcs) :
                    arcs[k].geometry = << locations[f[k]].coordinates,
                                         locations[f[k] + 1].coordinates >>
        /\ locations = <<>> => arcs = <<>>
        /\ (locations # <<>> /\ \A i \in 1..Len(locations) :
                                    Len(locations[i].coordinates) = 2)
              => Len(arcs) = Len(locations) - 1
        /\ WarnInvalidPair \in last.console
              <=> C25_ValidPairs # 1..(Len(locations) - 1)

\* a, b and a location d with one coordinate: the arc from a to b, and the pair
\* b, d left out with the warning
C25_Witness ==
    /\ C25_JustGenerated
    /\ Len(locations) = 3
    /\ Len(locations[3].coordinates) = 1
    /\ arcs = << [geometry |-> <<locations[1].coordinates, locations[2].coordinates>>] >>
    /\ WarnInvalidPair \in last.console

\* a, b, c: the arcs from a to b and from b to c, after a second generation
C25_WitnessAll ==
    /\ C25_JustGenerated
    /\ last.op = "updated"
    /\ Len(locations) = 3
    /\ Len(arcs) = 2
    /\ last.console = {}

\* ---- C26
\* every arc of the list has a source and a target that name a location of the
\* locations list
C26_Integrity ==
    \A j \in 1..Len(arcs) :
        /\ \E i \in 1..Len(locations) : locations[i].name = arcs[j].source
        /\ \E i \in 1..Len(locations) : locations[i].name = arcs[j].target

\* C26: referential integrity of the arcs: addLocation, removeLocation, addArc,
\* removeArc and updateArc, called in a state in which the source and the target
\* of every arc name locations of the list, lead to a state in which they do.
C26_IntegrityKept ==
    [][/\ HasArcsProperty(rev)
       /\ last'.op \in {"addLocation", "removeLocation", "addArc", "removeArc", "updateArc"}
       /\ C26_Integrity
       => C26_Integrity']_vars

\* removeLocation("c") has taken the arc from b to c with it: the arc left, from
\* a to b, names locations of the list
C26_Witness ==
    /\ HasArcsProperty(rev)
    /\ last.op = "removeLocation"
    /\ last.arg.name = "c"
    /\ last.was.arcs = 2
    /\ arcs = <<Arc("a", "b", "green", "x")>>
    /\ C26_Integrity

\* addArc was refused an arc from c with no location c in the list
C26_WitnessRefused ==
    /\ last.op = "addArc"
    /\ WarnArcEndpoint \in last.console
    /\ Len(arcs) = 1
    /\ C26_Integrity

\* ---- C27
\* the last step was a call of a public method with an argument
C27_PublicCall ==
    /\ last.op \in {"getZoom", "setZoom", "addLocation", "removeLocation", "addArc",
                    "removeArc", "updateArc"}
    /\ last.op = "addArc" => last.arg.t # "undefined"

\* C27: the public methods are safe in every lifecycle state: getZoom, setZoom,
\* addLocation, removeLocation, addArc, removeArc and updateArc called on an
\* element that is constructed and not yet rendered, or that is disconnected,
\* complete without raising.
C27_PublicMethodsNeverRaise ==
    C27_PublicCall /\ lifecycle \in {"constructed", "disconnected"} => ~last.threw

\* what the code keeps: on an element that has been rendered, disconnected or
\* not, the methods do not raise, and before the first render removeArc and,
\* outside "hub", addLocation and removeLocation do not
C27_MethodsRaiseOnlyUnrendered ==
    C27_PublicCall /\ last.threw =>
        /\ lifecycle = "constructed"
        /\ \/ last.op \in {"getZoom", "setZoom", "addArc", "updateArc"}
           \/ last.op \in {"addLocation", "removeLocation"} /\ rev = "hub"


\* ---- C28
\* a number that is finite and above 0
C28_FinitePositive(x) == x.k = "num" /\ x.v > 0

\* C28: for every list with locations, one location or several at the same
\* coordinates included, the fit leaves a finite positive scale and a zoom range
\* with two finite bounds.
C28_FitScaleFinite ==
    C15_JustFitted /\ last.op \in {"firstUpdated", "handleResize"} =>
        /\ C28_FinitePositive(projection.scale)
        /\ zoom.scaleExtent[1].k = "num"
        /\ zoom.scaleExtent[2].k = "num"

\* the same for the lists whose largest distance from the centroid is a number
\* above 0, in a viewport that is not empty
C28_FitScaleFiniteWhenSpread ==
    /\ C15_JustFitted
    /\ last.op \in {"firstUpdated", "handleResize"}
    /\ C28_FinitePositive(C15_RawDistance)
    /\ Min(Offset[1], Offset[2]) \div 2 > 0
    => /\ C28_FinitePositive(projection.scale)
       /\ C28_FinitePositive(zoom.scaleExtent[1])
       /\ C28_FinitePositive(zoom.scaleExtent[2])

\* the fit of a list whose locations are all at the centroid: the scale is not a
\* finite number
C28_FitScaleInfiniteAtOnePoint ==
    /\ C15_JustFitted
    /\ last.op \in {"firstUpdated", "handleResize"}
    /\ C15_RawDistance = Num(0)
    => projection.scale.k # "num"

\* ---- C29
\* setup is over in a revision with the zoom behaviour
C29_SetUp == HasZoom(rev) /\ lifecycle \in {"rendered", "disconnected"}

\* C29: in every state after setup, whatever the zoom events, the calls of
\* setZoom, the resizes, the property updates and the mutation calls before it,
\* the projection scale is within the current scale extent of the zoom behaviour.
C29_ScaleWithinExtent ==
    C29_SetUp =>
        /\ JsLe(zoom.scaleExtent[1], projection.scale)
        /\ JsLe(projection.scale, zoom.scaleExtent[2])

\* after setup the scale is within the scale extent unless it is NaN, and it is
\* NaN only on a disconnected element, whose size is 0, with both bounds NaN
C29_ScaleWithinExtentOrNaN ==
    C29_SetUp =>
        IF projection.scale.k = "nan"
        THEN lifecycle = "disconnected" /\ zoom.scaleExtent = <<NaN, NaN>>
        ELSE /\ JsLe(zoom.scaleExtent[1], projection.scale)
             /\ JsLe(projection.scale, zoom.scaleExtent[2])

\* ---- C30
\* the g elements a single render of the current state puts over the globe: one
\* for each circle of a revision that groups its circles, one for the arcs
C30_SingleRender ==
    [pointGroups |-> IF rev = "point" THEN 0 ELSE Len(svg.points),
     arcGroups |-> IF rev = "point" THEN 0 ELSE 1]

\* C30: however many times the overlay has been rendered again, by drag moves,
\* zoom events, resizes and property updates, the svg holds as many g elements of
\* points and of arcs as a single render puts there: those of the renders before
\* have been removed.
C30_NoLeftoverGroups ==
    lifecycle \in {"rendered", "disconnected"} =>
        /\ svg.pointGroups = C30_SingleRender.pointGroups
        /\ svg.arcGroups = C30_SingleRender.arcGroups

\* the same in the revisions that remove 'g.point-group' and 'g.arc-group'
C30_NoLeftoverClassedGroups ==
    ~GeneratesArcs(rev) => C30_NoLeftoverGroups

\* in "arcs" and "zoom" no g element is ever removed: from a step to the next
\* their number does not go down
C30_GroupsNeverRemoved ==
    [][GeneratesArcs(rev) /\ lifecycle # "constructed" =>
          /\ svg'.pointGroups >= svg.pointGroups
          /\ svg'.arcGroups >= svg.arcGroups]_vars

\* in "arcs" and "zoom" each drag event, which renders the overlay once, leaves
\* one more g element of arcs and one more for each circle it draws
C30_DragLeavesGroups ==
    [][GeneratesArcs(rev) /\ last'.op = "drag" =>
          /\ locations' = locations
          /\ arcs' = arcs
          /\ svg'.arcGroups = svg.arcGroups + 1
          /\ svg'.pointGroups = svg.pointGroups + Len(svg'.points)]_vars
============================================================================
